---- MODULE Spec2Model ----
(***************************************************************************)
(* State-machine model of the polymarket-compounder trading engine:        *)
(* PositionTracker (core/position_tracker.py), RiskManager                 *)
(* (utils/risk_manager.py), OrderManager (core/order_manager.py), the      *)
(* sum-to-one and resolution strategies and the main loop (main.py).       *)
(*                                                                         *)
(* Units.  Money is in cents, prices in cents per share (1..99, terminal   *)
(* prices 0 and 100), sizes in whole shares, percentages in whole percent  *)
(* (0.05 is written 5 and compared after cross-multiplying, so that no     *)
(* division is rounded), the wall clock `now` in minutes.  The inputs are  *)
(* chosen so that every division the code makes is exact.                  *)
(***************************************************************************)
EXTENDS Integers, Sequences, FiniteSets, TLC

(***************************************************************************)
(* config.py                                                               *)
(***************************************************************************)
SCAN_INTERVAL == 10
MAX_TRADE_USD == 10000
MIN_TRADE_USD == 200
MAX_POSITION_PCT == 20
MAX_TOTAL_EXPOSURE_PCT == 40
MAX_CONSECUTIVE_LOSSES == 3
MAX_DAILY_DRAWDOWN_PCT == 5
MAX_SINGLE_LOSS_PCT == 3
COOLDOWN_MINUTES == 30
RECOVERY_POSITION_MULTIPLIER == 50
RECOVERY_TRADE_COUNT == 5
MAX_STRATEGY_EXPOSURE_PCT == 30
MAX_RESOLUTION_POSITION_PCT == 20
ARB_THRESHOLD_MILLI == 985
SLIPPAGE_BUFFER_MILLI == 5
MIN_ARB_PROFIT_MILLI == 5
ESTIMATED_FEE_PCT == 1
ORDER_TIMEOUT_SECONDS == 15
MAX_RETRIES == 3
RETRY_BACKOFF_BASE == 2
\* get_position_multiplier's 1.0, in percent
FULL_MULTIPLIER == 100
\* _enter_cooldown's factor for an extended cooldown
EXTENDED_FACTOR == 4
\* the poll cadence of _monitor_arb_fills, in seconds
POLL_SECONDS == 1
\* the hard-coded ceiling on the winning token's ask, cents
RESOLUTION_MAX_ASK == 97
\* _execute's worst-case loss, percent of the cost
RESOLUTION_MAX_LOSS_PCT == 5
MIN_RESOLUTION_EDGE == 3
PHASE_2_BALANCE == 25000
PHASE_3_BALANCE == 50000
\* 0: the phase follows the balance
ACTIVE_PHASE == 0
\* resolution arb: the distance of the BTC price from the strike, and of the
\* two price sources from each other, under which it abstains, in thousandths
PRICE_BUFFER_MILLI == 5
HIGH_PRIORITY_THRESHOLD_MILLI == 940
EFFICIENT_SUM_MILLI == 970
ORACLE_AGREEMENT_MILLI == 5
\* market scanner: markets per page of the Gamma API, and the minutes (60 s)
\* for which a fetched catalog is served from the cache
PAGE_LIMIT == 100
CACHE_MINUTES == 1
\* directional engine: open positions allowed, the win rate (percent) under
\* which it disables itself, and the closed trades before that is tested
MAX_CONCURRENT_DIRECTIONAL == 3
MAX_TOTAL_DIRECTIONAL_PCT == 25
DIRECTIONAL_AUTO_DISABLE_WINRATE == 50
DIRECTIONAL_MIN_SAMPLE == 20
\* seconds main_loop sleeps after an exception
MAIN_LOOP_BACKOFF == 30
\* a UTC day, in minutes
MINUTES_PER_DAY == 24 * 60

(***************************************************************************)
(* Bounds of the model                                                     *)
(***************************************************************************)
\* clock advances in one behaviour of SpecRisk
MaxTicks == 2
\* UTC days that end in one behaviour of Spec
MaxDays == 1
\* positions ever opened through the ledger's API in SpecRisk
MaxPositions == 3
\* iterations of main_loop in one behaviour
MaxCycles == 2
\* create_limit_order calls the CLOB fails in one behaviour
MaxRejected == 3
\* positions ever opened in one behaviour of SpecLedger
MaxLedgerPositions == 3
\* iterations of main_loop in one behaviour of SpecLoop
MaxLoopCycles == 3
\* iterations of main_loop in one behaviour of SpecStop
MaxStopCycles == 3
\* iterations of main_loop in one behaviour of SpecDir
MaxDirCycles == 4
\* SpecDirCap: iterations of main_loop, and BTC markets in one scan
MaxCapCycles == 3
MaxMarkets == 4
\* calls of fetch_active_markets in one behaviour of SpecCatalog
MaxFetches == 3
\* levels of a book side in SpecWalk
MaxLevels == 3

VARIABLES
    now,            \* time.time(), minutes
    tracker,        \* the PositionTracker object
    risk,           \* the RiskManager object
    ret,            \* what the last call of the public API returned
    recovery_wins,  \* history: wins recorded since RECOVERY was last entered
    ticks,          \* history: clock advances so far
    DRY_RUN,        \* config.DRY_RUN
    om,             \* the OrderManager object and the OrderTickets it has made
    venue,          \* the CLOB: the orders it has accepted
    main,           \* main_loop: where it is, its cycle, its phase
    arb,            \* the SumToOneArb task of the current cycle
    res             \* the ResolutionArb task of the current cycle

sysvars == <<DRY_RUN, om, venue, main, arb, res>>
vars == <<now, tracker, risk, ret, recovery_wins, ticks,
          DRY_RUN, om, venue, main, arb, res>>

(***************************************************************************)
(* core/position_tracker.py                                                *)
(***************************************************************************)
\* Optional[float]: None is <<>>, a value v is <<v>>
None == <<>>
Some(v) == <<v>>

\* is_open testing the truth value of exit_price: an exit at 0.0 reads as open
is_open_falsy(pos) == pos.exit_price = None \/ pos.exit_price = Some(0)

\* Position.is_open
is_open(pos) == pos.exit_price = None

\* Position.cost_basis
cost_basis(pos) == pos.entry_price * pos.size

\* Position.pnl of a closed position
pnl(pos) == (pos.exit_price[1] - pos.entry_price) * pos.size

\* PositionTracker.__init__
NewTracker ==
    [positions |-> <<>>, trade_history |-> <<>>,
     consecutive_losses |-> 0, consecutive_wins |-> 0,
     max_win_streak |-> 0, max_loss_streak |-> 0]

Max2(a, b) == IF a >= b THEN a ELSE b
Min2(a, b) == IF a <= b THEN a ELSE b

\* PositionTracker.open_position: append an open position
open_position(tr, token_id, market_id, side, entry_price, size, strategy) ==
    [tr EXCEPT !.positions = Append(@,
        [token_id |-> token_id, market_id |-> market_id, side |-> side,
         entry_price |-> entry_price, size |-> size, strategy |-> strategy,
         exit_price |-> None])]

\* the scan of _find_open without the is_open test
RECURSIVE find_open_from_closed_too(_, _, _)
find_open_from_closed_too(positions, token_id, i) ==
    IF i = 0 THEN 0
    ELSE IF positions[i].token_id = token_id THEN i
    ELSE find_open_from_closed_too(positions, token_id, i - 1)

\* PositionTracker._find_open: scan from the most recent position; 0 is None
RECURSIVE find_open_from(_, _, _)
find_open_from(positions, token_id, i) ==
    IF i = 0 THEN 0
    ELSE IF positions[i].token_id = token_id /\ is_open(positions[i]) THEN i
    ELSE find_open_from(positions, token_id, i - 1)

\* _find_open scanning _positions oldest first
find_open_oldest(tr, token_id) ==
    LET found == {i \in 1..Len(tr.positions) :
                    tr.positions[i].token_id = token_id /\ is_open(tr.positions[i])}
    IN IF found = {} THEN 0
       ELSE CHOOSE i \in found : \A j \in found : i <= j

find_open(tr, token_id) == find_open_from(tr.positions, token_id, Len(tr.positions))

\* close_position counting a trade closed at its entry price (PnL 0) as a loss
close_position_zero_is_loss(tr, token_id, exit_price, balance_after, phase) ==
    LET i == find_open(tr, token_id) IN
    IF i = 0 THEN [tracker |-> tr, record |-> None]
    ELSE
      LET pos == [tr.positions[i] EXCEPT !.exit_price = Some(exit_price)]
          p == pnl(pos)
          wins == IF p > 0 THEN tr.consecutive_wins + 1 ELSE 0
          losses == IF p > 0 THEN 0 ELSE tr.consecutive_losses + 1
          record == [strategy |-> pos.strategy, market_name |-> pos.market_id,
                     side |-> pos.side, entry_price |-> pos.entry_price,
                     exit_price |-> exit_price, size_usd |-> cost_basis(pos),
                     pnl_usd |-> p, balance_after |-> balance_after,
                     phase |-> phase]
      IN [tracker |->
            [positions |-> [tr.positions EXCEPT ![i] = pos],
             trade_history |-> Append(tr.trade_history, record),
             consecutive_losses |-> losses,
             consecutive_wins |-> wins,
             max_win_streak |-> IF p > 0 THEN Max2(tr.max_win_streak, wins)
                                ELSE tr.max_win_streak,
             max_loss_streak |-> IF p > 0 THEN tr.max_loss_streak
                                 ELSE Max2(tr.max_loss_streak, losses)],
          record |-> Some(record)]

\* PositionTracker.close_position: the tracker after the call and the record
\* it returns (None when no open position has the token)
close_position(tr, token_id, exit_price, balance_after, phase) ==
    LET i == find_open(tr, token_id) IN
    IF i = 0 THEN [tracker |-> tr, record |-> None]
    ELSE
      LET pos == [tr.positions[i] EXCEPT !.exit_price = Some(exit_price)]
          p == pnl(pos)
          wins == IF p >= 0 THEN tr.consecutive_wins + 1 ELSE 0
          losses == IF p >= 0 THEN 0 ELSE tr.consecutive_losses + 1
          record == [strategy |-> pos.strategy, market_name |-> pos.market_id,
                     side |-> pos.side, entry_price |-> pos.entry_price,
                     exit_price |-> exit_price, size_usd |-> cost_basis(pos),
                     pnl_usd |-> p, balance_after |-> balance_after,
                     phase |-> phase]
      IN [tracker |->
            [positions |-> [tr.positions EXCEPT ![i] = pos],
             trade_history |-> Append(tr.trade_history, record),
             consecutive_losses |-> losses,
             consecutive_wins |-> wins,
             max_win_streak |-> IF p >= 0 THEN Max2(tr.max_win_streak, wins)
                                ELSE tr.max_win_streak,
             max_loss_streak |-> IF p >= 0 THEN tr.max_loss_streak
                                 ELSE Max2(tr.max_loss_streak, losses)],
          record |-> Some(record)]

\* the sums of total_exposure / strategy_exposure without the is_open filter
RECURSIVE sum_cost_closed_too(_, _, _, _)
sum_cost_closed_too(positions, n, all, strategy) ==
    IF n = 0 THEN 0
    ELSE sum_cost_closed_too(positions, n - 1, all, strategy)
         + (IF all \/ positions[n].strategy = strategy
            THEN cost_basis(positions[n]) ELSE 0)

\* sum(p.cost_basis for p in positions[1..n] if keep(p))
RECURSIVE sum_cost(_, _, _, _)
sum_cost(positions, n, all, strategy) ==
    IF n = 0 THEN 0
    ELSE sum_cost(positions, n - 1, all, strategy)
         + (IF is_open(positions[n]) /\ (all \/ positions[n].strategy = strategy)
            THEN cost_basis(positions[n]) ELSE 0)

\* PositionTracker.total_exposure
total_exposure(tr) == sum_cost(tr.positions, Len(tr.positions), TRUE, "")

\* PositionTracker.strategy_exposure
strategy_exposure(tr, strategy) ==
    sum_cost(tr.positions, Len(tr.positions), FALSE, strategy)

\* PositionTracker.open_positions, as the set of their indices
open_positions(tr) == {i \in 1..Len(tr.positions) : is_open(tr.positions[i])}

(***************************************************************************)
(* utils/risk_manager.py                                                   *)
(***************************************************************************)
\* TradeRequest.cost_usd
cost_usd(trade) == trade.price * trade.size

\* RiskManager.__init__ at time t
NewRisk(t) ==
    [state |-> "NORMAL", cooldown_until |-> 0, recovery_trades_remaining |-> 0,
     day_start_balance |-> 0, day_start_time |-> t, last_known_balance |-> 0]

\* RiskManager.set_day_start_balance
set_day_start_balance(rk, balance, t) ==
    [rk EXCEPT !.day_start_balance = balance, !.day_start_time = t]

\* _enter_cooldown with the extension dropped
enter_cooldown_flat(rk, extended, t) ==
    [rk EXCEPT !.state = "COOLDOWN", !.cooldown_until = t + COOLDOWN_MINUTES]

\* RiskManager._enter_cooldown
enter_cooldown(rk, extended, t) ==
    [rk EXCEPT !.state = "COOLDOWN",
               !.cooldown_until =
                   t + COOLDOWN_MINUTES * (IF extended THEN EXTENDED_FACTOR ELSE 1)]

\* RiskManager._enter_recovery
enter_recovery(rk) ==
    [rk EXCEPT !.state = "RECOVERY",
               !.recovery_trades_remaining = RECOVERY_TRADE_COUNT]

Reject(rk, reason) == [risk |-> rk, approved |-> FALSE, reason |-> reason]

\* the size gates with the per-trade size tested before the single-trade loss
size_gates_reordered(rk, tr, trade, current_balance) ==
    IF current_balance > 0
       /\ cost_usd(trade) * 100 > MAX_POSITION_PCT * current_balance
    THEN Reject(rk, "position_size")
    ELSE IF current_balance > 0
            /\ trade.max_loss_usd * 100 > MAX_SINGLE_LOSS_PCT * current_balance
    THEN Reject(rk, "single_loss")
    ELSE IF current_balance > 0
            /\ (total_exposure(tr) + cost_usd(trade)) * 100
                 > MAX_TOTAL_EXPOSURE_PCT * current_balance
    THEN Reject(rk, "total_exposure")
    ELSE IF current_balance > 0
            /\ (strategy_exposure(tr, trade.strategy) + cost_usd(trade)) * 100
                 > MAX_STRATEGY_EXPOSURE_PCT * current_balance
    THEN Reject(rk, "strategy_exposure")
    ELSE IF cost_usd(trade) < MIN_TRADE_USD THEN Reject(rk, "too_small")
    ELSE IF cost_usd(trade) > MAX_TRADE_USD THEN Reject(rk, "too_large")
    ELSE [risk |-> rk, approved |-> TRUE, reason |-> ""]

\* check_trade from the single-trade gate on: no state is changed any more
size_gates(rk, tr, trade, current_balance) ==
    IF current_balance > 0
       /\ trade.max_loss_usd * 100 > MAX_SINGLE_LOSS_PCT * current_balance
    THEN Reject(rk, "single_loss")
    ELSE IF current_balance > 0
            /\ cost_usd(trade) * 100 > MAX_POSITION_PCT * current_balance
    THEN Reject(rk, "position_size")
    ELSE IF current_balance > 0
            /\ (total_exposure(tr) + cost_usd(trade)) * 100
                 > MAX_TOTAL_EXPOSURE_PCT * current_balance
    THEN Reject(rk, "total_exposure")
    ELSE IF current_balance > 0
            /\ (strategy_exposure(tr, trade.strategy) + cost_usd(trade)) * 100
                 > MAX_STRATEGY_EXPOSURE_PCT * current_balance
    THEN Reject(rk, "strategy_exposure")
    ELSE IF cost_usd(trade) < MIN_TRADE_USD THEN Reject(rk, "too_small")
    ELSE IF cost_usd(trade) > MAX_TRADE_USD THEN Reject(rk, "too_large")
    ELSE [risk |-> rk, approved |-> TRUE, reason |-> ""]

\* the breaker gates with strict comparisons
breaker_gates_strict(rk, tr, trade, current_balance, t) ==
    IF rk.day_start_balance > 0
       /\ (rk.day_start_balance - current_balance) * 100
            > MAX_DAILY_DRAWDOWN_PCT * rk.day_start_balance
    THEN Reject(enter_cooldown(rk, FALSE, t), "drawdown")
    ELSE IF tr.consecutive_losses > MAX_CONSECUTIVE_LOSSES
            /\ rk.state # "RECOVERY"
    THEN Reject(enter_cooldown(rk, FALSE, t), "consecutive_losses")
    ELSE size_gates(rk, tr, trade, current_balance)

\* check_trade from the daily-drawdown gate on
breaker_gates(rk, tr, trade, current_balance, t) ==
    IF rk.day_start_balance > 0
       /\ (rk.day_start_balance - current_balance) * 100
            >= MAX_DAILY_DRAWDOWN_PCT * rk.day_start_balance
    THEN Reject(enter_cooldown(rk, FALSE, t), "drawdown")
    ELSE IF tr.consecutive_losses >= MAX_CONSECUTIVE_LOSSES
            /\ rk.state # "RECOVERY"
    THEN Reject(enter_cooldown(rk, FALSE, t), "consecutive_losses")
    ELSE size_gates(rk, tr, trade, current_balance)

\* check_trade leaving an expired cooldown for NORMAL instead of RECOVERY
check_trade_skip_recovery(rk, tr, trade, current_balance, t) ==
    LET rk1 == [rk EXCEPT !.last_known_balance = current_balance] IN
    IF rk1.state = "COOLDOWN" /\ t < rk1.cooldown_until
    THEN Reject(rk1, "cooldown")
    ELSE IF rk1.state = "COOLDOWN"
    THEN breaker_gates([rk1 EXCEPT !.state = "NORMAL"], tr, trade, current_balance, t)
    ELSE breaker_gates(rk1, tr, trade, current_balance, t)

\* check_trade holding the cooldown through the deadline itself
check_trade_late(rk, tr, trade, current_balance, t) ==
    LET rk1 == [rk EXCEPT !.last_known_balance = current_balance] IN
    IF rk1.state = "COOLDOWN" /\ t <= rk1.cooldown_until
    THEN Reject(rk1, "cooldown")
    ELSE IF rk1.state = "COOLDOWN"
    THEN breaker_gates(enter_recovery(rk1), tr, trade, current_balance, t)
    ELSE breaker_gates(rk1, tr, trade, current_balance, t)

\* RiskManager.check_trade at time t: the manager after the call, and the
\* (approved, reason) it returns
check_trade(rk, tr, trade, current_balance, t) ==
    LET rk1 == [rk EXCEPT !.last_known_balance = current_balance] IN
    IF rk1.state = "COOLDOWN" /\ t < rk1.cooldown_until
    THEN Reject(rk1, "cooldown")
    ELSE IF rk1.state = "COOLDOWN"
    THEN breaker_gates(enter_recovery(rk1), tr, trade, current_balance, t)
    ELSE breaker_gates(rk1, tr, trade, current_balance, t)

\* RiskManager.get_position_multiplier, in percent
get_position_multiplier(rk) ==
    IF rk.state = "RECOVERY" THEN RECOVERY_POSITION_MULTIPLIER ELSE FULL_MULTIPLIER

\* record_trade_completed returning to NORMAL one win late
record_trade_completed_late(rk, is_win, t) ==
    IF rk.state = "RECOVERY"
    THEN LET rk1 == [rk EXCEPT !.recovery_trades_remaining = @ - 1] IN
         IF ~is_win THEN enter_cooldown(rk1, TRUE, t)
         ELSE IF rk1.recovery_trades_remaining < 0
              THEN [rk1 EXCEPT !.state = "NORMAL"]
              ELSE rk1
    ELSE rk

\* RiskManager.record_trade_completed at time t
record_trade_completed(rk, is_win, t) ==
    IF rk.state = "RECOVERY"
    THEN LET rk1 == [rk EXCEPT !.recovery_trades_remaining = @ - 1] IN
         IF ~is_win THEN enter_cooldown(rk1, TRUE, t)
         ELSE IF rk1.recovery_trades_remaining <= 0
              THEN [rk1 EXCEPT !.state = "NORMAL"]
              ELSE rk1
    ELSE rk

\* is_trading_allowed ignoring the cooldown
is_trading_allowed_always(rk, t) == TRUE

\* RiskManager.is_trading_allowed at time t
is_trading_allowed(rk, t) ==
    IF rk.state = "COOLDOWN" THEN t >= rk.cooldown_until ELSE TRUE

\* history: the wins recorded since RECOVERY was last entered
wins_after_check(rk, t, n) ==
    IF rk.state = "COOLDOWN" /\ t >= rk.cooldown_until THEN 0 ELSE n

wins_after_record(rk, is_win, n) ==
    IF rk.state = "RECOVERY" /\ is_win THEN n + 1 ELSE n

(***************************************************************************)
(* core/book_analyzer.py.  An order book side is a sequence of levels      *)
(* [price, size], best price first.                                        *)
(***************************************************************************)
\* the loop of walk_book_asks taking each level whole
RECURSIVE walk_levels_whole(_, _, _, _, _)
walk_levels_whole(asks, i, remaining, total_cost, levels) ==
    IF i > Len(asks) \/ remaining <= 0
    THEN [remaining |-> remaining, total_cost |-> total_cost, levels |-> levels]
    ELSE walk_levels_whole(asks, i + 1, remaining - asks[i].size,
                           total_cost + asks[i].size * asks[i].price, levels + 1)

\* the loop of walk_book_asks, from level i on
RECURSIVE walk_levels(_, _, _, _, _)
walk_levels(asks, i, remaining, total_cost, levels) ==
    IF i > Len(asks) \/ remaining <= 0
    THEN [remaining |-> remaining, total_cost |-> total_cost, levels |-> levels]
    ELSE LET fill_qty == Min2(remaining, asks[i].size) IN
         walk_levels(asks, i + 1, remaining - fill_qty,
                     total_cost + fill_qty * asks[i].price, levels + 1)

\* walk_book_asks: the FillEstimate for target_size shares
walk_book_asks(asks, target_size) ==
    LET w == walk_levels(asks, 1, target_size, 0, 0)
        filled == target_size - w.remaining
    IN [average_price |-> IF filled > 0 THEN w.total_cost \div filled ELSE 0,
        total_filled |-> filled,
        total_cost |-> w.total_cost,
        levels_consumed |-> w.levels,
        fully_fillable |-> w.remaining <= 0]

\* the loop of walk_book_bids, from level i on
RECURSIVE walk_bid_levels(_, _, _, _, _)
walk_bid_levels(bids, i, remaining, total_proceeds, levels) ==
    IF i > Len(bids) \/ remaining <= 0
    THEN [remaining |-> remaining, total_proceeds |-> total_proceeds,
          levels |-> levels]
    ELSE LET fill_qty == Min2(remaining, bids[i].size) IN
         walk_bid_levels(bids, i + 1, remaining - fill_qty,
                         total_proceeds + fill_qty * bids[i].price, levels + 1)

\* walk_book_bids: the FillEstimate for selling target_size shares
walk_book_bids(bids, target_size) ==
    LET w == walk_bid_levels(bids, 1, target_size, 0, 0)
        filled == target_size - w.remaining
    IN [average_price |-> IF filled > 0 THEN w.total_proceeds \div filled ELSE 0,
        total_filled |-> filled,
        total_cost |-> w.total_proceeds,
        levels_consumed |-> w.levels,
        fully_fillable |-> w.remaining <= 0]

\* combined_fill_cost: None when either side lacks the depth
combined_fill_cost(yes_asks, no_asks, size) ==
    LET yes_fill == walk_book_asks(yes_asks, size)
        no_fill == walk_book_asks(no_asks, size)
    IN IF ~yes_fill.fully_fillable \/ ~no_fill.fully_fillable THEN None
       ELSE Some(yes_fill.average_price + no_fill.average_price)

\* best_ask_price
best_ask_price(asks) == IF asks = <<>> THEN None ELSE Some(asks[1].price)

(***************************************************************************)
(* core/order_manager.py and the order calls of core/client.py.            *)
(* An OrderTicket object is named after the call that makes it: "yes" and  *)
(* "no" for the two legs of the pair, "sell" for the recovery order, "res" *)
(* for the resolution order; om.tickets maps the name to the object, and   *)
(* om.active_orders is _active_orders, as the set of the names it holds.   *)
(* The CLOB gives a live order the id of its ticket's name; venue.orders   *)
(* maps it to the order's state.  When a cycle's tasks have returned,      *)
(* their tickets are reachable through _active_orders only and no modelled *)
(* code reads them or their orders again: the model follows the tickets    *)
(* and the orders of the running tasks only.                               *)
(* venue.rejected counts the create_limit_order calls the CLOB has failed. *)
(* create_limit_order, cancel_order and get_open_orders are synchronous:   *)
(* a coroutine is suspended only in asyncio.sleep, asyncio.gather and the  *)
(* network awaits of the scanner and the price feeds.                      *)
(***************************************************************************)
Slots == {"yes", "no", "sell", "res"}

\* the order id create_limit_order returns in dry-run mode
DRY_RUN_PLACEHOLDER == "dry-run-placeholder"

\* no OrderTicket object
AbsentTicket ==
    [token_id |-> "", side |-> "", price |-> 0, size |-> 0,
     order_id |-> None, status |-> "absent"]

\* OrderTicket(token_id, side, price, size)
OrderTicket(token_id, side, price, size) ==
    [token_id |-> token_id, side |-> side, price |-> price, size |-> size,
     order_id |-> None, status |-> "pending"]

\* OrderManager.__init__
NewOrderManager ==
    [tickets |-> [s \in Slots |-> AbsentTicket], active_orders |-> {}]

NewVenue == [orders |-> [s \in Slots |-> "none"], rejected |-> 0]

\* a place_limit coroutine: not created, created and not yet run, suspended in
\* its back-off sleep after `attempt` failed attempts, returned
NoCall == [attempt |-> 0, wait |-> 0, st |-> "off"]
NewCall == [NoCall EXCEPT !.st = "ready"]
ReturnedCall == [NoCall EXCEPT !.st = "done"]

\* place_limit over a create_limit_order without its dry-run branch: the call
\* goes to the CLOB in dry-run mode too
place_limit_no_dry_run(call, slot, o, v, dry, token_id, side, price, size, ok) ==
    LET o0 == IF call.st = "ready"
              THEN [o EXCEPT !.tickets[slot] =
                                 OrderTicket(token_id, side, price, size)]
              ELSE o
        attempt == call.attempt + 1
    IN IF attempt > MAX_RETRIES
       THEN [call |-> ReturnedCall,
             om |-> [o0 EXCEPT !.tickets[slot].status = "failed"],
             venue |-> v]
       ELSE IF ok
       THEN [call |-> ReturnedCall,
             om |-> [o0 EXCEPT !.tickets[slot].order_id = Some(slot),
                               !.tickets[slot].status = "submitted",
                               !.active_orders = @ \cup {slot}],
             venue |-> [v EXCEPT !.orders[slot] = "open"]]
       ELSE [call |-> [attempt |-> attempt,
                       wait |-> RETRY_BACKOFF_BASE ^ attempt, st |-> "backoff"],
             om |-> o0,
             venue |-> [v EXCEPT !.rejected = @ + 1]]

\* place_limit, making the ticket `slot`, from where the coroutine stands to
\* its next suspension or its return; ok tells whether the create_limit_order
\* call it makes returns
place_limit(call, slot, o, v, dry, token_id, side, price, size, ok) ==
    LET o0 == IF call.st = "ready"
              THEN [o EXCEPT !.tickets[slot] =
                                 OrderTicket(token_id, side, price, size)]
              ELSE o
        attempt == call.attempt + 1
    IN IF attempt > MAX_RETRIES
       THEN [call |-> ReturnedCall,
             om |-> [o0 EXCEPT !.tickets[slot].status = "failed"],
             venue |-> v]
       ELSE IF dry \/ ok
       THEN [call |-> ReturnedCall,
             om |-> [o0 EXCEPT
                       !.tickets[slot].order_id =
                           Some(IF dry THEN DRY_RUN_PLACEHOLDER ELSE slot),
                       !.tickets[slot].status = "submitted",
                       !.active_orders = @ \cup {slot}],
             venue |-> IF dry THEN v ELSE [v EXCEPT !.orders[slot] = "open"]]
       ELSE [call |-> [attempt |-> attempt,
                       wait |-> RETRY_BACKOFF_BASE ^ attempt, st |-> "backoff"],
             om |-> o0,
             venue |-> [v EXCEPT !.rejected = @ + 1]]

\* client.cancel_order returning: an open order is cancelled, any other is left
venue_cancel(v, id) ==
    IF v.orders[id] = "open" THEN [v EXCEPT !.orders[id] = "cancelled"] ELSE v

\* _cancel_if_submitted marking the ticket whether or not cancel_order returns
cancel_if_submitted_blind(o, v, dry, slot, ok) ==
    IF o.tickets[slot].status = "submitted" /\ o.tickets[slot].order_id # None
    THEN [om |-> [o EXCEPT !.tickets[slot].status = "cancelled"],
          venue |-> IF dry \/ ~ok THEN v
                    ELSE venue_cancel(v, o.tickets[slot].order_id[1])]
    ELSE [om |-> o, venue |-> v]

\* _cancel_if_submitted; ok tells whether cancel_order returns (it raises
\* otherwise, and the exception is logged)
cancel_if_submitted(o, v, dry, slot, ok) ==
    IF o.tickets[slot].status = "submitted" /\ o.tickets[slot].order_id # None
    THEN IF dry
         THEN [om |-> [o EXCEPT !.tickets[slot].status = "cancelled"], venue |-> v]
         ELSE IF ok
         THEN [om |-> [o EXCEPT !.tickets[slot].status = "cancelled"],
               venue |-> venue_cancel(v, o.tickets[slot].order_id[1])]
         ELSE [om |-> o, venue |-> v]
    ELSE [om |-> o, venue |-> v]

\* _check_filled; ok tells whether get_open_orders returns
check_filled(o, v, slot, ok) ==
    IF o.tickets[slot].order_id = None
       \/ o.tickets[slot].order_id[1] = DRY_RUN_PLACEHOLDER
    THEN TRUE
    ELSE IF ok THEN v.orders[o.tickets[slot].order_id[1]] # "open"
    ELSE FALSE

set_status(o, slot, status) == [o EXCEPT !.tickets[slot].status = status]

\* the tickets and the orders of the returned tasks are followed no further
retire_tickets(o) ==
    [tickets |-> [s \in Slots |-> AbsentTicket], active_orders |-> {}]

retire_orders(v) ==
    [orders |-> [s \in Slots |-> "none"], rejected |-> v.rejected]

\* _recover_filled_leg selling one cent under the entry price
recover_filled_leg_discounted(o, v, slot, ok) ==
    place_limit(NewCall, "sell", o, v, FALSE, o.tickets[slot].token_id, "SELL",
                o.tickets[slot].price - 1, o.tickets[slot].size, ok)

\* _recover_filled_leg up to its first suspension: a SELL of the filled leg at
\* its entry price
recover_filled_leg(o, v, slot, ok) ==
    place_limit(NewCall, "sell", o, v, FALSE, o.tickets[slot].token_id, "SELL",
                o.tickets[slot].price, o.tickets[slot].size, ok)

\* _monitor_arb_fills after its deadline, up to the first suspension of the
\* recovery (or to its return when neither leg filled); cy, cn and ok tell
\* whether the cancel of the YES leg, of the NO leg and the SELL submission
\* return
monitor_timeout(o, v, yes_filled, no_filled, cy, cn, ok) ==
    IF yes_filled /\ ~no_filled
    THEN LET c == cancel_if_submitted(o, v, FALSE, "no", cn)
             o1 == set_status(set_status(c.om, "no", "cancelled"), "yes", "filled")
         IN recover_filled_leg(o1, c.venue, "yes", ok)
    ELSE IF no_filled /\ ~yes_filled
    THEN LET c == cancel_if_submitted(o, v, FALSE, "yes", cy)
             o1 == set_status(set_status(c.om, "yes", "cancelled"), "no", "filled")
         IN recover_filled_leg(o1, c.venue, "no", ok)
    ELSE LET c1 == cancel_if_submitted(o, v, FALSE, "yes", cy)
             c2 == cancel_if_submitted(c1.om, c1.venue, FALSE, "no", cn)
         IN [call |-> NoCall,
             om |-> set_status(set_status(c2.om, "yes", "cancelled"), "no", "cancelled"),
             venue |-> c2.venue]

(***************************************************************************)
(* main.py: phases                                                         *)
(***************************************************************************)
\* determine_phase with strict comparisons at the thresholds
determine_phase_strict(manual, balance) ==
    IF manual \in {1, 2, 3} THEN manual
    ELSE IF balance > PHASE_3_BALANCE THEN 3
    ELSE IF balance > PHASE_2_BALANCE THEN 2
    ELSE 1

\* determine_phase, config.ACTIVE_PHASE being manual
determine_phase_with(manual, balance) ==
    IF manual \in {1, 2, 3} THEN manual
    ELSE IF balance >= PHASE_3_BALANCE THEN 3
    ELSE IF balance >= PHASE_2_BALANCE THEN 2
    ELSE 1

\* determine_phase in the engine, where ACTIVE_PHASE is left at its default
determine_phase(balance) == determine_phase_with(ACTIVE_PHASE, balance)

\* build_strategies: the strategies of a phase, among the two modelled
build_strategies(phase) ==
    {"sum_to_one_arb"} \cup (IF phase >= 1 THEN {"resolution_arb"} ELSE {})

(***************************************************************************)
(* strategies/sum_to_one_arb.py                                            *)
(***************************************************************************)
\* the one binary market the scanner returns
Market == [condition_id |-> "m1", yes_token_id |-> "yes1", no_token_id |-> "no1"]

SkipMarket ==
    [go |-> FALSE, checked |-> FALSE, yes_price |-> 0, no_price |-> 0,
     shares |-> 0, total_profit |-> 0]

\* _evaluate_market up to the call of place_arb_pair: whether the pair is to
\* be placed (go), whether check_trade was called (checked), the manager after
\* it, and the prices and size of the pair
sum_to_one_evaluate(rk, tr, yes_asks, no_asks, balance, t) ==
    LET base_size_usd == Min2((balance * MAX_POSITION_PCT) \div 100, MAX_TRADE_USD)
        size_usd == (base_size_usd * get_position_multiplier(rk)) \div 100
        naive_sum == yes_asks[1].price + no_asks[1].price
        estimated_shares == IF naive_sum > 0 THEN size_usd \div naive_sum ELSE 0
        cost == combined_fill_cost(yes_asks, no_asks, estimated_shares)
        \* per share, in hundredths of a cent
        profit_per_share == 100 * 100 - cost[1] * 100 - cost[1] * ESTIMATED_FEE_PCT
        total_cost == cost[1] * estimated_shares
        yes_fill == walk_book_asks(yes_asks, estimated_shares)
        no_fill == walk_book_asks(no_asks, estimated_shares)
        trade_req == [strategy |-> "sum_to_one_arb",
                      token_id |-> Market.yes_token_id, side |-> "BUY",
                      price |-> cost[1], size |-> estimated_shares,
                      max_loss_usd |-> (total_cost * SLIPPAGE_BUFFER_MILLI) \div 1000]
        r == check_trade(rk, tr, trade_req, balance, t)
    IN IF yes_asks = <<>> \/ no_asks = <<>> THEN SkipMarket @@ [risk |-> rk]
       ELSE IF size_usd < MIN_TRADE_USD THEN SkipMarket @@ [risk |-> rk]
       ELSE IF naive_sum * 10 > ARB_THRESHOLD_MILLI THEN SkipMarket @@ [risk |-> rk]
       ELSE IF estimated_shares <= 0 THEN SkipMarket @@ [risk |-> rk]
       ELSE IF cost = None THEN SkipMarket @@ [risk |-> rk]
       ELSE IF profit_per_share < MIN_ARB_PROFIT_MILLI * 10
       THEN SkipMarket @@ [risk |-> rk]
       ELSE [go |-> r.approved, checked |-> TRUE, risk |-> r.risk,
             yes_price |-> yes_fill.average_price,
             no_price |-> no_fill.average_price,
             shares |-> estimated_shares,
             total_profit |-> (profit_per_share * estimated_shares) \div 100]

\* "Track positions" opening a position for every leg that did not fail
position_held_unless_failed(status) == status # "failed"

\* "Track positions": the leg's position is opened when its ticket is filled
position_held(status) == status = "filled"

\* _evaluate_market from the return of place_arb_pair on: positions are opened
\* for the filled legs and, when both filled, closed at the simulated payout
sum_to_one_track(tr, rk, o, yes_price, no_price, shares, new_balance, t) ==
    LET ys == o.tickets["yes"].status
        ns == o.tickets["no"].status
        tr1 == IF position_held(ys)
               THEN open_position(tr, Market.yes_token_id, Market.condition_id,
                                  "YES", yes_price, shares, "sum_to_one_arb")
               ELSE tr
        tr2 == IF position_held(ns)
               THEN open_position(tr1, Market.no_token_id, Market.condition_id,
                                  "NO", no_price, shares, "sum_to_one_arb")
               ELSE tr1
        yes_close == close_position(tr2, Market.yes_token_id, 100, new_balance, 0)
        no_close == close_position(yes_close.tracker, Market.no_token_id, 0,
                                   new_balance, 0)
    IN IF ys = "filled" /\ ns = "filled"
       THEN [tracker |-> no_close.tracker,
             completed |-> yes_close.record # None,
             risk |-> IF yes_close.record # None
                      THEN record_trade_completed(rk, TRUE, t) ELSE rk]
       ELSE [tracker |-> tr2, completed |-> FALSE, risk |-> rk]

\* the SumToOneArb task: not running; and its state when scan_and_execute has
\* returned, the locals of the frames that are gone cleared
IdleArb ==
    [pc |-> "idle", balance |-> 0, yes_price |-> 0, no_price |-> 0,
     shares |-> 0, total_profit |-> 0, yes |-> NoCall, no |-> NoCall,
     yes_filled |-> FALSE, no_filled |-> FALSE, waited |-> 0, sell |-> NoCall,
     monitor |-> "none", recovery |-> "none"]

(***************************************************************************)
(* strategies/resolution_arb.py                                            *)
(***************************************************************************)
\* _evaluate_market from the order book on and _execute up to the call of
\* place_limit
resolution_evaluate(rk, tr, token_id, asks, balance, t) ==
    LET best == best_ask_price(asks)
        base_size_usd == Min2((balance * MAX_RESOLUTION_POSITION_PCT) \div 100,
                              MAX_TRADE_USD)
        size_usd == (base_size_usd * get_position_multiplier(rk)) \div 100
        wanted == size_usd \div best[1]
        fill == walk_book_asks(asks, wanted)
        shares == IF fill.fully_fillable THEN wanted ELSE fill.total_filled
        trade_req == [strategy |-> "resolution_arb", token_id |-> token_id,
                      side |-> "BUY", price |-> fill.average_price,
                      size |-> shares,
                      max_loss_usd |-> (fill.total_cost * RESOLUTION_MAX_LOSS_PCT) \div 100]
        r == check_trade(rk, tr, trade_req, balance, t)
        skip == [go |-> FALSE, checked |-> FALSE, risk |-> rk, price |-> 0,
                 shares |-> 0]
    IN IF best = None THEN skip
       ELSE IF 100 - best[1] < MIN_RESOLUTION_EDGE THEN skip
       ELSE IF best[1] > RESOLUTION_MAX_ASK THEN skip
       ELSE IF size_usd < MIN_TRADE_USD THEN skip
       ELSE IF ~fill.fully_fillable /\ shares * best[1] < MIN_TRADE_USD THEN skip
       ELSE [go |-> r.approved, checked |-> TRUE, risk |-> r.risk,
             price |-> fill.average_price, shares |-> shares]

\* _execute from the return of place_limit on
resolution_track(tr, rk, o, dry, token_id, side, price, shares, balance, t) ==
    IF o.tickets["res"].status \in {"submitted", "filled"}
    THEN LET tr1 == open_position(tr, token_id, Market.condition_id, side,
                                  price, shares, "resolution_arb")
             new_balance == balance + (100 - price) * shares
             c == close_position(tr1, token_id, 100, new_balance, 1)
         IN IF dry
            THEN [tracker |-> c.tracker,
                  completed |-> c.record # None,
                  risk |-> IF c.record # None
                           THEN record_trade_completed(rk, TRUE, t) ELSE rk]
            ELSE [tracker |-> tr1, completed |-> FALSE, risk |-> rk]
    ELSE [tracker |-> tr, completed |-> FALSE, risk |-> rk]

IdleRes ==
    [pc |-> "idle", token_id |-> "", side |-> "", price |-> 0, shares |-> 0,
     balance |-> 0, call |-> NoCall]

\* main_loop before its first cycle
NewMain(phase) == [pc |-> "top", cycle |-> 0, phase |-> phase, last_daily |-> None]

(***************************************************************************)
(* SpecRisk: the public API of RiskManager and PositionTracker driven by   *)
(* an arbitrary caller, with the clock advancing between calls.            *)
(***************************************************************************)
\* account balances the caller passes (20000 is the day's start; 19000 is a
\* drawdown of exactly 5%)
Balances == {19000, 20000}
DayStartBalances == {0, 20000}
RiskStrategy == "resolution_arb"
RiskToken == "tokA"
\* trades the caller proposes: price 50, sizes giving 10%, 20% and 25% of 20000
RiskSizes == {40, 100}
RiskTrades ==
    {[strategy |-> RiskStrategy, token_id |-> RiskToken, side |-> "BUY",
      price |-> 50, size |-> s, max_loss_usd |-> 100] : s \in RiskSizes}
\* how far the clock may jump between two calls: a base cooldown, an extended one
TickMinutes == {COOLDOWN_MINUTES, COOLDOWN_MINUTES * EXTENDED_FACTOR}

NoRet == [op |-> "none", approved |-> FALSE, reason |-> ""]

InitRisk ==
    /\ now = 0
    /\ ticks = 0
    /\ tracker = NewTracker
    /\ \E b \in DayStartBalances : risk = set_day_start_balance(NewRisk(0), b, 0)
    /\ ret = NoRet
    /\ recovery_wins = 0
    /\ DRY_RUN = FALSE
    /\ om = NewOrderManager
    /\ venue = NewVenue
    /\ main = NewMain(1)
    /\ arb = IdleArb
    /\ res = IdleRes

\* the wall clock advances
Tick ==
    /\ ticks < MaxTicks
    /\ ticks' = ticks + 1
    /\ \E d \in TickMinutes : now' = now + d
    /\ UNCHANGED <<tracker, risk, ret, recovery_wins, sysvars>>

CallCheckTrade ==
    \E trade \in RiskTrades, b \in Balances :
        LET r == check_trade(risk, tracker, trade, b, now) IN
        /\ risk' = r.risk
        /\ ret' = [op |-> "check_trade", approved |-> r.approved,
                   reason |-> r.reason]
        /\ recovery_wins' = wins_after_check(risk, now, recovery_wins)
        /\ UNCHANGED <<now, ticks, tracker, sysvars>>

CallRecordTradeCompleted ==
    \E is_win \in BOOLEAN :
        /\ risk' = record_trade_completed(risk, is_win, now)
        /\ ret' = [NoRet EXCEPT !.op = "record_trade_completed", !.approved = is_win]
        /\ recovery_wins' = wins_after_record(risk, is_win, recovery_wins)
        /\ UNCHANGED <<now, ticks, tracker, sysvars>>

CallOpenPosition ==
    /\ Len(tracker.positions) < MaxPositions
    /\ \E s \in {40} :
        tracker' = open_position(tracker, RiskToken, "m1", "YES", 50, s, RiskStrategy)
    /\ UNCHANGED <<now, ticks, risk, ret, recovery_wins, sysvars>>

CallClosePosition ==
    \E exit_price \in {0, 100} :
        LET r == close_position(tracker, RiskToken, exit_price, 20000, 1) IN
        /\ tracker' = r.tracker
        /\ r.record # None
        /\ UNCHANGED <<now, ticks, risk, ret, recovery_wins, sysvars>>

NextRisk ==
    \/ Tick
    \/ CallCheckTrade
    \/ CallRecordTradeCompleted
    \/ CallOpenPosition
    \/ CallClosePosition

SpecRisk == InitRisk /\ [][NextRisk]_vars

(***************************************************************************)
(* Claims about the risk manager, checked under SpecRisk                   *)
(***************************************************************************)
\* the daily drawdown (day_start - current) / day_start reaches the limit
DrawdownHit(day_start, current) ==
    day_start > 0 /\ (day_start - current) * 100 >= MAX_DAILY_DRAWDOWN_PCT * day_start

\* C2: in every reachable NORMAL state, a checkTrade call made while the daily
\* drawdown is at or over maxDailyDrawdownPct, or while the ledger counts at
\* least maxConsecutiveLosses consecutive losses, returns not-approved and
\* leaves the state COOLDOWN, whatever the trade.
C2_BreakerTrips ==
    \A trade \in RiskTrades, b \in Balances :
        (/\ risk.state = "NORMAL"
         /\ \/ DrawdownHit(risk.day_start_balance, b)
            \/ tracker.consecutive_losses >= MAX_CONSECUTIVE_LOSSES)
        => LET r == check_trade(risk, tracker, trade, b, now) IN
           ~r.approved /\ r.risk.state = "COOLDOWN"

\* a checkTrade call has just tripped the breaker on three consecutive losses
C2_Witness ==
    /\ ret.op = "check_trade" /\ ~ret.approved /\ ret.reason = "consecutive_losses"
    /\ risk.state = "COOLDOWN"
    /\ tracker.consecutive_losses = MAX_CONSECUTIVE_LOSSES
    /\ ~DrawdownHit(risk.day_start_balance, risk.last_known_balance)

\* C3 as claimed: in COOLDOWN every checkTrade before the deadline is rejected,
\* and the first one at or after the deadline returns with the state RECOVERY,
\* for every balance and ledger.
C3_Original ==
    \A trade \in RiskTrades, b \in Balances :
        risk.state = "COOLDOWN"
        => LET r == check_trade(risk, tracker, trade, b, now) IN
           IF now < risk.cooldown_until
           THEN ~r.approved /\ r.risk.state = "COOLDOWN"
           ELSE r.risk.state = "RECOVERY"

\* C3 as amended: in COOLDOWN every checkTrade before the deadline is rejected
\* and keeps the deadline; the first one at or after the deadline enters
\* RECOVERY (recovery_trades_remaining is reset to recoveryTradeCount) and
\* returns with the state RECOVERY unless the daily-drawdown gate trips in that
\* same call, in which case the call is rejected and returns with the state
\* COOLDOWN and a new base deadline.
C3_CooldownLazyExit ==
    \A trade \in RiskTrades, b \in Balances :
        risk.state = "COOLDOWN"
        => LET r == check_trade(risk, tracker, trade, b, now) IN
           IF now < risk.cooldown_until
           THEN /\ ~r.approved
                /\ r.risk.state = "COOLDOWN"
                /\ r.risk.cooldown_until = risk.cooldown_until
           ELSE /\ r.risk.recovery_trades_remaining = RECOVERY_TRADE_COUNT
                /\ IF DrawdownHit(risk.day_start_balance, b)
                   THEN /\ ~r.approved
                        /\ r.risk.state = "COOLDOWN"
                        /\ r.risk.cooldown_until = now + COOLDOWN_MINUTES
                   ELSE r.risk.state = "RECOVERY"

\* a checkTrade call made at the deadline has just left COOLDOWN for RECOVERY
C3_Witness ==
    /\ ret.op = "check_trade"
    /\ risk.state = "RECOVERY"
    /\ risk.recovery_trades_remaining = RECOVERY_TRADE_COUNT
    /\ recovery_wins = 0
    /\ now = risk.cooldown_until

\* C4: a win recorded in RECOVERY that is the recoveryTradeCount-th since
\* RECOVERY was entered leaves the state NORMAL with multiplier 1.0; any
\* earlier win leaves the state RECOVERY with the recovery multiplier.
C4_RecoveryCompletes ==
    [][recovery_wins' = recovery_wins + 1
       => IF recovery_wins' = RECOVERY_TRADE_COUNT
          THEN /\ risk'.state = "NORMAL"
               /\ get_position_multiplier(risk') = FULL_MULTIPLIER
          ELSE /\ recovery_wins' < RECOVERY_TRADE_COUNT
               /\ risk'.state = "RECOVERY"
               /\ get_position_multiplier(risk') = RECOVERY_POSITION_MULTIPLIER
      ]_vars

\* the fifth win since RECOVERY was entered has just been recorded
C4_Witness ==
    /\ ret.op = "record_trade_completed" /\ ret.approved
    /\ recovery_wins = RECOVERY_TRADE_COUNT
    /\ risk.state = "NORMAL"
    /\ risk.recovery_trades_remaining = 0

\* a step that enters COOLDOWN or sets a new deadline
EntersCooldown ==
    /\ risk'.state = "COOLDOWN"
    /\ risk.state # "COOLDOWN" \/ risk'.cooldown_until # risk.cooldown_until

\* C5 as claimed: every RECOVERY -> COOLDOWN transition sets the deadline to
\* now + 4 x cooldownMinutes and every NORMAL -> COOLDOWN transition to
\* now + 1 x cooldownMinutes.
C5_Original ==
    [][/\ (risk.state = "RECOVERY" /\ risk'.state = "COOLDOWN")
            => risk'.cooldown_until = now + EXTENDED_FACTOR * COOLDOWN_MINUTES
       /\ (risk.state = "NORMAL" /\ risk'.state = "COOLDOWN")
            => risk'.cooldown_until = now + COOLDOWN_MINUTES
      ]_vars

\* C5 as amended: the duration depends on the call that enters COOLDOWN: a
\* loss reported by recordTradeCompleted during RECOVERY sets the deadline to
\* now + 4 x cooldownMinutes; every cooldown that checkTrade enters (drawdown
\* or loss-streak gate), from NORMAL and from RECOVERY alike, sets it to
\* now + 1 x cooldownMinutes.
C5_CooldownDuration ==
    [][EntersCooldown
       => IF ret'.op = "record_trade_completed"
          THEN /\ risk.state = "RECOVERY" /\ ~ret'.approved
               /\ risk'.cooldown_until = now + EXTENDED_FACTOR * COOLDOWN_MINUTES
          ELSE /\ ret'.op = "check_trade" /\ ~ret'.approved
               /\ risk'.cooldown_until = now + COOLDOWN_MINUTES
      ]_vars

\* a loss recorded during RECOVERY has just entered the extended cooldown
C5_Witness ==
    /\ ret.op = "record_trade_completed" /\ ~ret.approved
    /\ risk.state = "COOLDOWN"
    /\ risk.cooldown_until = now + EXTENDED_FACTOR * COOLDOWN_MINUTES

ChainBalances == {20000}
\* when the engine is started: half an hour before the UTC day ends
StartTimes == {MINUTES_PER_DAY - COOLDOWN_MINUTES}
DayOf(t) == t \div MINUTES_PER_DAY

Level(price, size) == [price |-> price, size |-> size]
\* the books of the market's two tokens a scan may see: a pair at 60 + 20, a
\* pair whose YES side takes two levels (50 and 70, 30 for NO), a pair over
\* the threshold, a YES side without the depth, a market without asks
ArbBooks ==
    {[yes |-> <<Level(60, 100)>>, no |-> <<Level(20, 100)>>],
     [yes |-> <<Level(50, 25), Level(70, 25)>>, no |-> <<Level(30, 100)>>],
     [yes |-> <<Level(60, 100)>>, no |-> <<Level(39, 100)>>],
     [yes |-> <<Level(60, 10)>>, no |-> <<Level(20, 100)>>],
     [yes |-> <<>>, no |-> <<>>]}
\* the asks of the winning token: deep at 80, thin at 80, too dear, none
ResBooks ==
    {<<Level(80, 100)>>, <<Level(80, 25)>>, <<Level(98, 100)>>, <<>>}
\* what _get_btc_price_confirmed and the strike give: no confirmed outcome, or
\* the winning side (YES: the price is on the question's side of the strike)
Oracle == {"none", "YES"}
\* seconds from one check of _monitor_arb_fills's deadline to the next
PollDelays == {(ORDER_TIMEOUT_SECONDS + POLL_SECONDS) \div 2, ORDER_TIMEOUT_SECONDS}
\* whether the CLOB may still fail a create_limit_order call
MayReject == venue.rejected < MaxRejected

\* setup(): the components are built and the day-start balance is set
Init ==
    /\ now \in StartTimes
    /\ ticks = 0
    /\ DRY_RUN \in BOOLEAN
    /\ tracker = NewTracker
    /\ \E b \in ChainBalances :
         /\ risk = set_day_start_balance(NewRisk(now), b, now)
         /\ main = NewMain(determine_phase(b))
    /\ om = NewOrderManager
    /\ venue = NewVenue
    /\ arb = IdleArb
    /\ res = IdleRes
    /\ ret = NoRet
    /\ recovery_wins = 0

\* main_loop from the top of an iteration to its gather (or to its sleep when
\* the risk manager is cooling down)
MainCycle ==
    /\ main.pc = "top"
    /\ main.cycle < MaxCycles
    /\ \E b \in ChainBalances :
         LET new_phase == determine_phase(b)
             strategies == build_strategies(new_phase)
         IN IF ~is_trading_allowed(risk, now)
            THEN /\ main' = [main EXCEPT !.pc = "sleep", !.cycle = @ + 1,
                                         !.phase = new_phase]
                 /\ UNCHANGED <<arb, res>>
            ELSE /\ main' = [main EXCEPT !.pc = "gather", !.cycle = @ + 1,
                                         !.phase = new_phase]
                 /\ arb' = IF "sum_to_one_arb" \in strategies
                           THEN [IdleArb EXCEPT !.pc = "fetch"] ELSE IdleArb
                 /\ res' = IF "resolution_arb" \in strategies
                           THEN [IdleRes EXCEPT !.pc = "fetch"] ELSE IdleRes
    /\ UNCHANGED <<now, ticks, tracker, risk, ret, recovery_wins, DRY_RUN, om, venue>>

\* main_loop from the return of its gather to its sleep; check_daily_summary
\* notes the UTC day it last ran in
MainJoin ==
    /\ main.pc = "gather"
    /\ arb.pc \in {"idle", "done"}
    /\ res.pc \in {"idle", "done"}
    /\ main' = [main EXCEPT
                  !.pc = "sleep",
                  !.last_daily = IF @ = None \/ DayOf(@[1]) # DayOf(now)
                                 THEN Some(now) ELSE @]
    /\ arb' = IdleArb
    /\ res' = IdleRes
    /\ om' = retire_tickets(om)
    /\ venue' = retire_orders(venue)
    /\ UNCHANGED <<now, ticks, tracker, risk, ret, recovery_wins, DRY_RUN>>

\* a UTC day ends while main_loop sleeps between two cycles
Midnight ==
    /\ main.pc = "sleep"
    /\ DayOf(now) < MaxDays
    /\ now' = (DayOf(now) + 1) * MINUTES_PER_DAY
    /\ UNCHANGED <<ticks, tracker, risk, ret, recovery_wins, DRY_RUN, om, venue,
                   main, arb, res>>

\* asyncio.sleep(SCAN_INTERVAL) returns
MainWake ==
    /\ main.pc = "sleep"
    /\ main' = [main EXCEPT !.pc = "top"]
    /\ UNCHANGED <<now, ticks, tracker, risk, ret, recovery_wins, DRY_RUN, om,
                   venue, arb, res>>

\* SumToOneArb._evaluate_market from the return of place_arb_pair to the
\* return of scan_and_execute, the order manager and the venue being o and v
ArbReturn(a, o, v) ==
    LET k == sum_to_one_track(tracker, risk, o, a.yes_price, a.no_price, a.shares,
                              a.balance + a.total_profit, now)
    IN /\ tracker' = k.tracker
       /\ risk' = k.risk
       /\ recovery_wins' = IF k.completed
                           THEN wins_after_record(risk, TRUE, recovery_wins)
                           ELSE recovery_wins
       /\ om' = o
       /\ venue' = v
       /\ arb' = [a EXCEPT !.pc = "done", !.waited = 0,
                           !.yes_filled = FALSE, !.no_filled = FALSE]

\* one iteration of the loop of _monitor_arb_fills, from the test of the
\* deadline to the sleep or to the return of the strategy
ArbMonitorPoll(a, qy, qn) ==
    LET yes_filled == a.yes_filled \/ check_filled(om, venue, "yes", qy)
        no_filled == a.no_filled \/ check_filled(om, venue, "no", qn)
    IN IF yes_filled /\ no_filled
       THEN ArbReturn([a EXCEPT !.monitor = "both_filled"],
                      set_status(set_status(om, "yes", "filled"), "no", "filled"),
                      venue)
       ELSE /\ arb' = [a EXCEPT !.pc = "poll", !.yes_filled = yes_filled,
                                !.no_filled = no_filled]
            /\ UNCHANGED <<tracker, risk, recovery_wins, om, venue>>

\* scan_and_execute from the return of fetch_active_markets to the gather of
\* place_arb_pair (or to its return when the market is passed over)
ArbScanOn(balances) ==
    /\ arb.pc = "fetch"
    /\ \E books \in ArbBooks, b \in balances :
         LET e == sum_to_one_evaluate(risk, tracker, books.yes, books.no, b, now)
         IN /\ risk' = e.risk
            /\ recovery_wins' = IF e.checked
                                THEN wins_after_check(risk, now, recovery_wins)
                                ELSE recovery_wins
            /\ arb' = IF e.go
                      THEN [IdleArb EXCEPT !.pc = "gather", !.balance = b,
                                           !.yes_price = e.yes_price,
                                           !.no_price = e.no_price,
                                           !.shares = e.shares,
                                           !.total_profit = e.total_profit,
                                           !.yes = NewCall, !.no = NewCall]
                      ELSE [IdleArb EXCEPT !.pc = "done"]
    /\ UNCHANGED <<now, ticks, tracker, ret, DRY_RUN, om, venue, main, res>>

\* scan_and_execute reading the balance of the chain
ArbScan == ArbScanOn(ChainBalances)

\* one of the two place_limit tasks of place_arb_pair runs to its next sleep
\* or to its return
ArbLegOn(may_reject) ==
    /\ arb.pc = "gather"
    /\ \E leg \in {"yes", "no"}, ok \in BOOLEAN :
         /\ arb[leg].st \in {"ready", "backoff"}
         /\ ok \/ may_reject
         /\ LET r == place_limit(arb[leg], leg, om, venue, DRY_RUN,
                                 IF leg = "yes" THEN Market.yes_token_id
                                 ELSE Market.no_token_id,
                                 "BUY",
                                 IF leg = "yes" THEN arb.yes_price ELSE arb.no_price,
                                 arb.shares, ok)
            IN /\ arb' = [arb EXCEPT ![leg] = r.call]
               /\ om' = r.om
               /\ venue' = r.venue
    /\ UNCHANGED <<now, ticks, tracker, risk, ret, recovery_wins, DRY_RUN, main, res>>

\* the legs placed at a CLOB that fails a bounded number of submissions
ArbLeg == ArbLegOn(MayReject)

\* place_arb_pair from the return of its gather on
ArbGathered ==
    /\ arb.pc = "gather"
    /\ arb.yes.st = "done"
    /\ arb.no.st = "done"
    /\ IF om.tickets["yes"].status = "failed"
          \/ om.tickets["no"].status = "failed"
       THEN \E cy, cn \in BOOLEAN :
              LET c1 == cancel_if_submitted(om, venue, DRY_RUN, "yes", cy)
                  c2 == cancel_if_submitted(c1.om, c1.venue, DRY_RUN, "no", cn)
              IN ArbReturn(arb, c2.om, c2.venue)
       ELSE IF DRY_RUN
       THEN ArbReturn(arb,
                      set_status(set_status(om, "yes", "filled"), "no", "filled"),
                      venue)
       ELSE \E qy, qn \in BOOLEAN : ArbMonitorPoll(arb, qy, qn)
    /\ UNCHANGED <<now, ticks, ret, DRY_RUN, main, res>>

\* the loop test of _monitor_arb_fills that never sees the deadline
deadline_never(waited) == FALSE

\* the loop test of _monitor_arb_fills, `time.time() < deadline`, failing:
\* waited is the time since the deadline was set
deadline_passed(waited) == waited >= ORDER_TIMEOUT_SECONDS

\* _monitor_arb_fills from the return of its sleep on
ArbPollOn(may_reject) ==
    /\ arb.pc = "poll"
    /\ \E d \in PollDelays :
         LET a == [arb EXCEPT !.waited = Min2(@ + d, ORDER_TIMEOUT_SECONDS)] IN
         IF ~deadline_passed(a.waited)
         THEN \E qy, qn \in BOOLEAN : ArbMonitorPoll(a, qy, qn)
         ELSE \E cy, cn \in BOOLEAN, ok \in {TRUE, ~may_reject} :
                LET m == monitor_timeout(om, venue, a.yes_filled, a.no_filled,
                                         cy, cn, ok)
                    a1 == [a EXCEPT !.monitor = "timeout", !.sell = m.call]
                IN IF m.call.st = "off"
                   THEN ArbReturn(a1, m.om, m.venue)
                   ELSE /\ arb' = [a1 EXCEPT !.pc = IF m.call.st = "done"
                                                    THEN "sell_wait"
                                                    ELSE "sell_backoff"]
                        /\ om' = m.om
                        /\ venue' = m.venue
                        /\ UNCHANGED <<tracker, risk, recovery_wins>>
    /\ UNCHANGED <<now, ticks, ret, DRY_RUN, main, res>>

\* the monitor polling at a CLOB that fails a bounded number of submissions
ArbPoll == ArbPollOn(MayReject)

\* the place_limit of _recover_filled_leg from the return of its back-off on
ArbSellRetryOn(may_reject) ==
    /\ arb.pc = "sell_backoff"
    /\ \E ok \in {TRUE, ~may_reject} :
         LET t == om.tickets["sell"]
             r == place_limit(arb.sell, "sell", om, venue, FALSE, t.token_id,
                              "SELL", t.price, t.size, ok)
             a == [arb EXCEPT !.sell = r.call]
         IN IF r.call.st = "backoff"
            THEN /\ arb' = a
                 /\ om' = r.om
                 /\ venue' = r.venue
                 /\ UNCHANGED <<tracker, risk, recovery_wins>>
            ELSE IF r.om.tickets["sell"].status = "submitted"
            THEN /\ arb' = [a EXCEPT !.pc = "sell_wait"]
                 /\ om' = r.om
                 /\ venue' = r.venue
                 /\ UNCHANGED <<tracker, risk, recovery_wins>>
            ELSE ArbReturn([a EXCEPT !.recovery = "failed"], r.om, r.venue)
    /\ UNCHANGED <<now, ticks, ret, DRY_RUN, main, res>>

\* the recovery SELL retried at a CLOB that fails a bounded number of submissions
ArbSellRetry == ArbSellRetryOn(MayReject)

\* _recover_filled_leg from the return of its sleep(ORDER_TIMEOUT_SECONDS) on
ArbSellChecked ==
    /\ arb.pc = "sell_wait"
    /\ \E q \in BOOLEAN :
         ArbReturn([arb EXCEPT !.recovery =
                        IF check_filled(om, venue, "sell", q)
                        THEN "filled" ELSE "unfilled"],
                   om, venue)
    /\ UNCHANGED <<now, ticks, ret, DRY_RUN, main, res>>

\* ResolutionArb._execute from the return of place_limit to the return of
\* scan_and_execute, the order manager and the venue being o and v
ResReturn(r, o, v) ==
    LET k == resolution_track(tracker, risk, o, DRY_RUN,
                              r.token_id, r.side, r.price, r.shares,
                              r.balance, now)
    IN /\ tracker' = k.tracker
       /\ risk' = k.risk
       /\ recovery_wins' = IF k.completed
                           THEN wins_after_record(risk, TRUE, recovery_wins)
                           ELSE recovery_wins
       /\ om' = o
       /\ venue' = v
       /\ res' = [r EXCEPT !.pc = "done"]

\* scan_and_execute from the return of fetch_active_markets to the await of
\* the BTC price (or to its return when no BTC market with a strike is found)
ResScan ==
    /\ res.pc = "fetch"
    /\ \E found \in BOOLEAN :
         res' = [res EXCEPT !.pc = IF found THEN "oracle" ELSE "done"]
    /\ UNCHANGED <<now, ticks, tracker, risk, ret, recovery_wins, DRY_RUN, om,
                   venue, main, arb>>

\* _evaluate_market from the return of _get_btc_price_confirmed to the first
\* suspension of place_limit or to the return of scan_and_execute
ResEvaluateOn(balances) ==
    /\ res.pc = "oracle"
    /\ \E winning_side \in Oracle, asks \in ResBooks, b \in balances,
          ok \in {TRUE, ~MayReject} :
         IF winning_side = "none"
         THEN /\ res' = [res EXCEPT !.pc = "done"]
              /\ UNCHANGED <<tracker, risk, recovery_wins, om, venue>>
         ELSE
           LET token_id == IF winning_side = "YES" THEN Market.yes_token_id
                           ELSE Market.no_token_id
               e == resolution_evaluate(risk, tracker, token_id, asks, b, now)
               p == place_limit(NewCall, "res", om, venue, DRY_RUN, token_id, "BUY",
                                e.price, e.shares, ok)
               r == [res EXCEPT !.token_id = token_id, !.side = winning_side,
                                !.price = e.price, !.shares = e.shares,
                                !.balance = b, !.call = p.call]
           IN IF ~e.go
              THEN /\ res' = [res EXCEPT !.pc = "done"]
                   /\ risk' = e.risk
                   /\ recovery_wins' = IF e.checked
                                       THEN wins_after_check(risk, now, recovery_wins)
                                       ELSE recovery_wins
                   /\ UNCHANGED <<tracker, om, venue>>
              ELSE IF p.call.st = "backoff"
              THEN /\ res' = [r EXCEPT !.pc = "backoff"]
                   /\ risk' = e.risk
                   /\ recovery_wins' = wins_after_check(risk, now, recovery_wins)
                   /\ om' = p.om
                   /\ venue' = p.venue
                   /\ UNCHANGED tracker
              ELSE LET k == resolution_track(tracker, e.risk, p.om,
                                             DRY_RUN, token_id, winning_side,
                                             e.price, e.shares, b, now)
                   IN /\ tracker' = k.tracker
                      /\ risk' = k.risk
                      /\ recovery_wins' =
                           IF k.completed
                           THEN wins_after_record(e.risk, TRUE,
                                    wins_after_check(risk, now, recovery_wins))
                           ELSE wins_after_check(risk, now, recovery_wins)
                      /\ om' = p.om
                      /\ venue' = p.venue
                      /\ res' = [r EXCEPT !.pc = "done"]
    /\ UNCHANGED <<now, ticks, ret, DRY_RUN, main, arb>>

\* _evaluate_market reading the balance of the chain
ResEvaluate == ResEvaluateOn(ChainBalances)

\* the place_limit of _execute from the return of its back-off on
ResRetry ==
    /\ res.pc = "backoff"
    /\ \E ok \in {TRUE, ~MayReject} :
         LET p == place_limit(res.call, "res", om, venue, DRY_RUN, res.token_id,
                              "BUY",
                              res.price, res.shares, ok)
             r == [res EXCEPT !.call = p.call]
         IN IF p.call.st = "backoff"
            THEN /\ res' = r
                 /\ om' = p.om
                 /\ venue' = p.venue
                 /\ UNCHANGED <<tracker, risk, recovery_wins>>
            ELSE ResReturn(r, p.om, p.venue)
    /\ UNCHANGED <<now, ticks, ret, DRY_RUN, main, arb>>

\* the CLOB matches a resting order
VenueFill ==
    /\ \E id \in Slots :
         /\ venue.orders[id] = "open"
         /\ venue' = [venue EXCEPT !.orders[id] = "filled"]
    /\ UNCHANGED <<now, ticks, tracker, risk, ret, recovery_wins, DRY_RUN, om,
                   main, arb, res>>

Next ==
    \/ Midnight
    \/ MainCycle
    \/ MainJoin
    \/ MainWake
    \/ ArbScan
    \/ ArbLeg
    \/ ArbGathered
    \/ ArbPoll
    \/ ArbSellRetry
    \/ ArbSellChecked
    \/ ResScan
    \/ ResEvaluate
    \/ ResRetry
    \/ VenueFill

Spec == Init /\ [][Next]_vars

(***************************************************************************)
(* Claims about the engine, checked under Spec                             *)
(***************************************************************************)
\* C1 (as claimed): with a constant positive balance and any interleaving of
\* the concurrently dispatched strategies, the ledger's total open cost basis
\* never exceeds maxTotalExposurePct x balance.
C1_TotalExposureCapped ==
    \A b \in ChainBalances :
        total_exposure(tracker) * 100 <= MAX_TOTAL_EXPOSURE_PCT * b

\* C7 (as claimed): whenever the strategies are dispatched, the day-start
\* balance the drawdown gate uses was set in the current UTC day, i.e.
\* setDayStartBalance has been called again at each UTC-day rollover.
C7_DayStartOfCurrentDay ==
    main.pc = "gather" => DayOf(risk.day_start_time) = DayOf(now)

\* the step in which the sum-to-one strategy finishes processing its pair
ArbReturns == arb.pc # "done" /\ arb'.pc = "done"

\* the positions a step opens and leaves open
OpenedBy == open_positions(tracker') \ open_positions(tracker)

\* C8: for a pair in live mode that reaches the fill-monitoring timeout, the
\* strategy's processing of the pair leaves at most one open ledger position
\* originating from the pair.
C8_TimeoutLeavesAtMostOne ==
    [][(ArbReturns /\ ~DRY_RUN /\ arb'.monitor = "timeout")
       => Cardinality(OpenedBy) <= 1
      ]_vars

\* a pair has timed out with the YES leg filled and the NO leg cancelled, and
\* the ledger holds the YES leg's position
C8_Witness ==
    /\ ~DRY_RUN
    /\ arb.pc = "done"
    /\ arb.monitor = "timeout"
    /\ om.tickets["yes"].status = "filled"
    /\ om.tickets["no"].status = "cancelled"
    /\ \E i \in open_positions(tracker) :
         /\ tracker.positions[i].token_id = Market.yes_token_id
         /\ tracker.positions[i].strategy = "sum_to_one_arb"
    /\ ~\E i \in open_positions(tracker) :
         tracker.positions[i].token_id = Market.no_token_id

\* C9 (as claimed): in live mode, when exactly one leg has filled at the
\* timeout and the recovery SELL of that leg has itself filled, the strategy's
\* processing of the pair leaves no open ledger position of the pair.
C9_RecoveredLegNotHeld ==
    [][(/\ ArbReturns
        /\ ~DRY_RUN
        /\ arb'.monitor = "timeout"
        /\ arb'.recovery = "filled"
        /\ venue'.orders["sell"] = "filled")
       => OpenedBy = {}
      ]_vars

\* the step in which the strategy finishes a pair of which a leg failed to
\* submit
PairAborted ==
    /\ ArbReturns
    /\ \E leg \in {"yes", "no"} : om.tickets[leg].status = "failed"

\* C10 (as claimed): if either leg fails to submit, any successfully submitted
\* counterpart is cancelled at the venue, fill monitoring is not started,
\* neither returned leg has status filled, and the strategy opens no ledger
\* position for the pair.
C10_Original ==
    [][PairAborted
       => /\ \A leg \in {"yes", "no"} :
               om.tickets[leg].status = "submitted"
               => venue'.orders[leg] = "cancelled"
          /\ arb'.monitor = "none"
          /\ \A leg \in {"yes", "no"} : om'.tickets[leg].status # "filled"
          /\ tracker' = tracker
      ]_vars

\* C10 (as amended): if either leg fails to submit, a cancel is requested for
\* any successfully submitted counterpart; its ticket is marked cancelled
\* exactly when the request returns, and then the order is no longer open at
\* the venue (it is cancelled, or it had filled before the request); when the
\* request raises, the ticket stays submitted and the order is left as it was.
\* Fill monitoring is not started, neither returned leg has status filled, and
\* the strategy opens no ledger position for the pair.
C10_AbortedPair ==
    [][PairAborted
       => /\ \A leg \in {"yes", "no"} :
               om.tickets[leg].status = "submitted"
               => \/ /\ om'.tickets[leg].status = "cancelled"
                     /\ venue'.orders[leg] \in {"cancelled", "filled"}
                     /\ venue.orders[leg] = "filled" => venue'.orders[leg] = "filled"
                  \/ /\ om'.tickets[leg].status = "submitted"
                     /\ venue'.orders[leg] = venue.orders[leg]
          /\ arb'.monitor = "none"
          /\ \A leg \in {"yes", "no"} : om'.tickets[leg].status # "filled"
          /\ tracker' = tracker
      ]_vars

\* the YES leg failed every attempt, and the NO leg, submitted meanwhile, was
\* cancelled at the venue; nothing was opened
C10_Witness ==
    /\ arb.pc = "done"
    /\ arb.monitor = "none"
    /\ om.tickets["yes"].status = "failed"
    /\ om.tickets["no"].status = "cancelled"
    /\ venue.orders["no"] = "cancelled"
    /\ venue.rejected = MAX_RETRIES
    /\ \A i \in 1..Len(tracker.positions) :
         tracker.positions[i].strategy # "sum_to_one_arb"


(***************************************************************************)
(* Claims about place_limit and place_arb_pair, checked under Spec         *)
(***************************************************************************)
\* the place_limit coroutine that makes the ticket `slot`, in the tasks a and r
CallOf(a, r, slot) ==
    IF slot = "res" THEN r.call ELSE a[slot]

\* a step in which the place_limit coroutine of `slot` has run
PlaceLimitRan(slot) ==
    /\ CallOf(arb', res', slot) # CallOf(arb, res, slot)
    /\ CallOf(arb', res', slot).st \in {"backoff", "done"}

\* C11 (as claimed): placeLimit makes at most maxRetries submission attempts;
\* it returns status submitted at the first attempt that succeeds and makes no
\* further attempt; it returns status failed if and only if all maxRetries
\* attempts raised; the backoff wait after failed attempt k is
\* retryBackoffBase^k seconds and happens only between attempts, i.e. a
\* back-off sleep is always followed by another attempt.
C11_PlaceLimitRetries ==
    [][\A slot \in Slots :
         LET c == CallOf(arb, res, slot)
             c2 == CallOf(arb', res', slot)
         IN /\ PlaceLimitRan(slot) /\ c2.st = "backoff"
                 => /\ c2.attempt = c.attempt + 1
                    /\ c2.attempt <= MAX_RETRIES
                    /\ venue'.rejected = venue.rejected + 1
                    /\ c2.wait = RETRY_BACKOFF_BASE ^ c2.attempt
                    /\ c2.attempt < MAX_RETRIES
            /\ PlaceLimitRan(slot) /\ c2.st = "done"
                 => /\ om'.tickets[slot].status \in {"submitted", "failed"}
                    /\ om'.tickets[slot].status = "failed"
                         <=> c.attempt = MAX_RETRIES
                    /\ om'.tickets[slot].status = "submitted"
                         => /\ c.attempt < MAX_RETRIES
                            /\ venue'.rejected = venue.rejected
            /\ c.st = "done" => c2.st \in {"done", "off"}]_vars

\* the timeout/cancel/recovery-sell path and the polling of the open orders
\* have left no trace in the task a, the order manager o and the venue v
NoMonitoring(a, o, v) ==
    /\ a.pc \notin {"poll", "sell_backoff", "sell_wait"}
    /\ a.monitor = "none"
    /\ a.recovery = "none"
    /\ a.sell = NoCall
    /\ o.tickets["sell"].status = "absent"
    /\ \A leg \in {"yes", "no"} : o.tickets[leg].status # "cancelled"
    /\ \A s \in Slots : v.orders[s] = "none"

\* C12: in dry-run mode every placeArbPair call returns with both legs in
\* status filled in the step that follows the submission of the legs, without
\* polling the venue's open orders, and the timeout/cancel/recovery-sell path
\* is never executed.
C12_DryRunShortCircuit ==
    [][DRY_RUN =>
         /\ NoMonitoring(arb', om', venue')
         /\ (arb.pc = "gather" /\ arb'.pc # "gather")
              => /\ arb'.pc = "done"
                 /\ om'.tickets["yes"].status = "filled"
                 /\ om'.tickets["no"].status = "filled"]_vars

\* a dry-run pair has returned with both legs filled
C12_Witness ==
    /\ DRY_RUN
    /\ arb.pc = "done"
    /\ om.tickets["yes"].status = "filled"
    /\ om.tickets["no"].status = "filled"
    /\ om.tickets["yes"].order_id = Some(DRY_RUN_PLACEHOLDER)
    /\ NoMonitoring(arb, om, venue)

(***************************************************************************)
(* SpecLedger: PositionTracker driven by an arbitrary caller that opens    *)
(* positions on two tokens for two strategies and closes by token id, the  *)
(* token having an open position or not.  ret records the last call and    *)
(* whether it returned a TradeRecord.                                      *)
(***************************************************************************)
LedgerTokens == {"tokA", "tokB"}
LedgerStrategies == {"sum_to_one_arb", "resolution_arb"}
\* shares of a position, by the strategy that opens it; all are entered at 50
LedgerSize(strategy) == IF strategy = "sum_to_one_arb" THEN 10 ELSE 20
LedgerEntryPrice == 50
\* exits at a loss, at the entry price (PnL 0) and at a gain
LedgerExitPrices == {0, LedgerEntryPrice, 100}

InitLedger ==
    /\ now = 0
    /\ ticks = 0
    /\ tracker = NewTracker
    /\ risk = NewRisk(0)
    /\ ret = NoRet
    /\ recovery_wins = 0
    /\ DRY_RUN = FALSE
    /\ om = NewOrderManager
    /\ venue = NewVenue
    /\ main = NewMain(1)
    /\ arb = IdleArb
    /\ res = IdleRes

LedgerOpen ==
    /\ Len(tracker.positions) < MaxLedgerPositions
    /\ \E token_id \in LedgerTokens, strategy \in LedgerStrategies :
         /\ tracker' = open_position(tracker, token_id, "m1", "YES",
                                     LedgerEntryPrice, LedgerSize(strategy),
                                     strategy)
         /\ ret' = [op |-> "open_position", approved |-> TRUE, reason |-> token_id]
    /\ UNCHANGED <<now, ticks, risk, recovery_wins, sysvars>>

LedgerClose ==
    /\ \E token_id \in LedgerTokens, exit_price \in LedgerExitPrices :
         LET r == close_position(tracker, token_id, exit_price, 20000, 1) IN
         /\ tracker' = r.tracker
         /\ ret' = [op |-> "close_position", approved |-> r.record # None,
                    reason |-> token_id]
    /\ UNCHANGED <<now, ticks, risk, recovery_wins, sysvars>>

NextLedger ==
    \/ LedgerOpen
    \/ LedgerClose

SpecLedger == InitLedger /\ [][NextLedger]_vars

(***************************************************************************)
(* Claims about the ledger, checked under SpecLedger                       *)
(***************************************************************************)
\* the sum of entryPrice x size over the positions whose indices are in S
RECURSIVE SumCostBasis(_, _)
SumCostBasis(positions, S) ==
    IF S = {} THEN 0
    ELSE LET i == CHOOSE j \in S : TRUE IN
         positions[i].entry_price * positions[i].size
           + SumCostBasis(positions, S \ {i})

\* the open positions of the ledger tr that the strategy owns
OwnedOpen(tr, strategy) ==
    {i \in open_positions(tr) : tr.positions[i].strategy = strategy}

\* C13: after any sequence of openPosition and closePosition calls,
\* totalExposure() equals the sum of entryPrice x size over exactly the
\* positions that are still open, and strategyExposure(s) the same sum over
\* those owned by s: an open adds its cost to the total and to its strategy
\* only, a close that returns a record takes the closed position's cost away
\* from the total and from its strategy only, a close that returns nothing
\* changes neither.
C13_ExposureIsOpenCost ==
    [][/\ total_exposure(tracker')
            = SumCostBasis(tracker'.positions, open_positions(tracker'))
       /\ \A s \in LedgerStrategies :
            strategy_exposure(tracker', s)
              = SumCostBasis(tracker'.positions, OwnedOpen(tracker', s))
       /\ LET delta == total_exposure(tracker') - total_exposure(tracker)
              sdelta(s) == strategy_exposure(tracker', s)
                             - strategy_exposure(tracker, s)
              n == Len(tracker'.positions)
              h == Len(tracker'.trade_history)
          IN /\ ret'.op = "open_position"
                  => /\ delta = LedgerEntryPrice
                                  * LedgerSize(tracker'.positions[n].strategy)
                     /\ \A s \in LedgerStrategies :
                          sdelta(s) = IF s = tracker'.positions[n].strategy
                                      THEN delta ELSE 0
             /\ ret'.op = "close_position" /\ ret'.approved
                  => /\ delta = - tracker'.trade_history[h].size_usd
                     /\ delta < 0
                     /\ \A s \in LedgerStrategies :
                          sdelta(s) = IF s = tracker'.trade_history[h].strategy
                                      THEN delta ELSE 0
             /\ ret'.op = "close_position" /\ ~ret'.approved
                  => /\ delta = 0
                     /\ \A s \in LedgerStrategies : sdelta(s) = 0]_vars

\* one position closed, two open positions of different strategies left
C13_Witness ==
    /\ Len(tracker.positions) = 3
    /\ Cardinality(open_positions(tracker)) = 2
    /\ total_exposure(tracker) = 1500
    /\ strategy_exposure(tracker, "sum_to_one_arb") = 500
    /\ strategy_exposure(tracker, "resolution_arb") = 1000

\* the length of the run of records that ends the history h[1..n]: of the
\* negative-PnL records when negative, of the others otherwise
RECURSIVE TrailingRun(_, _, _)
TrailingRun(h, n, negative) ==
    IF n = 0 THEN 0
    ELSE IF (h[n].pnl_usd < 0) = negative
    THEN 1 + TrailingRun(h, n - 1, negative)
    ELSE 0

\* C14: after any sequence of closes, consecutive_losses is the length of the
\* trailing run of negative-PnL trade records and consecutive_wins the length
\* of the trailing run of non-negative-PnL records, so at most one of the two
\* is non-zero.
C14_StreaksAreTrailingRuns ==
    LET h == tracker.trade_history IN
    /\ tracker.consecutive_losses = TrailingRun(h, Len(h), TRUE)
    /\ tracker.consecutive_wins = TrailingRun(h, Len(h), FALSE)
    /\ tracker.consecutive_losses = 0 \/ tracker.consecutive_wins = 0

\* a loss, then a gain, then a trade closed at its entry price
C14_Witness ==
    /\ Len(tracker.trade_history) = 3
    /\ tracker.trade_history[1].pnl_usd < 0
    /\ tracker.trade_history[2].pnl_usd > 0
    /\ tracker.trade_history[3].pnl_usd = 0
    /\ tracker.consecutive_wins = 2
    /\ tracker.consecutive_losses = 0
    /\ tracker.max_loss_streak = 1

\* the positions of the ledger tr with the token that have not been closed
OpenWithToken(tr, token_id) ==
    {i \in 1..Len(tr.positions) :
       tr.positions[i].token_id = token_id /\ tr.positions[i].exit_price = None}

\* C15: closePosition(token, ...) closes exactly one position, the most
\* recently opened position with that token id that is still open; every
\* other position, older open positions with the same token included, is left
\* unchanged.
C15_ClosesMostRecentOpen ==
    [][ret'.op = "close_position" /\ ret'.approved
         => LET cands == OpenWithToken(tracker, ret'.reason)
                P == tracker.positions
                P2 == tracker'.positions
            IN /\ cands # {}
               /\ Len(P2) = Len(P)
               /\ \E k \in cands :
                    /\ \A j \in cands : j <= k
                    /\ P2[k].exit_price # None
                    /\ [P2[k] EXCEPT !.exit_price = None] = P[k]
                    /\ \A i \in 1..Len(P) : i # k => P2[i] = P[i]]_vars

\* the later of two open positions on the same token has just been closed and
\* the earlier one is still open
C15_Witness ==
    /\ ret.op = "close_position" /\ ret.approved
    /\ \E i, k \in 1..Len(tracker.positions) :
         /\ i < k
         /\ tracker.positions[i].token_id = ret.reason
         /\ tracker.positions[k].token_id = ret.reason
         /\ tracker.positions[i].strategy # tracker.positions[k].strategy
         /\ is_open(tracker.positions[i])
         /\ ~is_open(tracker.positions[k])
         /\ Len(tracker.trade_history) = 1

\* C16: closePosition for a token with no open position returns nothing and
\* leaves the ledger unchanged: positions, trade history, consecutive win/loss
\* counters and peak streaks are all as before the call.
C16_CloseUnknownIsNoOp ==
    \A token_id \in LedgerTokens, exit_price \in LedgerExitPrices :
        OpenWithToken(tracker, token_id) = {}
        => LET r == close_position(tracker, token_id, exit_price, 20000, 1) IN
           /\ r.record = None
           /\ r.tracker.positions = tracker.positions
           /\ r.tracker.trade_history = tracker.trade_history
           /\ r.tracker.consecutive_losses = tracker.consecutive_losses
           /\ r.tracker.consecutive_wins = tracker.consecutive_wins
           /\ r.tracker.max_win_streak = tracker.max_win_streak
           /\ r.tracker.max_loss_streak = tracker.max_loss_streak

\* a close has just returned nothing for a token whose only position was
\* closed before, while a position on the other token is open
C16_Witness ==
    /\ ret.op = "close_position" /\ ~ret.approved
    /\ OpenWithToken(tracker, ret.reason) = {}
    /\ \E i \in 1..Len(tracker.positions) :
         tracker.positions[i].token_id = ret.reason
    /\ \E i \in open_positions(tracker) :
         tracker.positions[i].token_id # ret.reason
    /\ Len(tracker.trade_history) = 1
    /\ tracker.consecutive_losses = 1

\* the positions of the ledger tr that have been closed
ClosedPositions(tr) ==
    {i \in 1..Len(tr.positions) : tr.positions[i].exit_price # None}

\* C17: the trade history is append-only: each closePosition that returns a
\* record appends exactly one TradeRecord, no ledger operation removes or
\* alters an existing record, a position is closed at most once (a closed
\* position never changes again), and in every reachable state the number of
\* TradeRecords equals the number of closed positions.
C17_HistoryAppendOnly ==
    [][LET h == tracker.trade_history
           h2 == tracker'.trade_history
       IN /\ Len(h2) >= Len(h)
          /\ SubSeq(h2, 1, Len(h)) = h
          /\ Len(h2) = Len(h) + (IF ret'.op = "close_position" /\ ret'.approved
                                 THEN 1 ELSE 0)
          /\ \A i \in ClosedPositions(tracker) :
               tracker'.positions[i] = tracker.positions[i]
          /\ Len(h2) = Cardinality(ClosedPositions(tracker'))]_vars

\* two positions closed, one of them at 0, and one still open
C17_Witness ==
    /\ Len(tracker.positions) = 3
    /\ Cardinality(ClosedPositions(tracker)) = 2
    /\ Len(tracker.trade_history) = 2
    /\ \E i \in ClosedPositions(tracker) : tracker.positions[i].exit_price = Some(0)
    /\ tracker.trade_history[1].exit_price # tracker.trade_history[2].exit_price

(***************************************************************************)
(* SpecPhase: determine_phase applied to a balance and to a value of       *)
(* ACTIVE_PHASE drawn at start; ret holds the inputs and then the result.  *)
(***************************************************************************)
\* balances, in cents: every $25 up to $600, and one cent either side of the
\* two thresholds
PhaseBalances ==
    {k * 2500 : k \in 0..24}
      \cup {PHASE_2_BALANCE - 1, PHASE_2_BALANCE + 1,
            PHASE_3_BALANCE - 1, PHASE_3_BALANCE + 1}
\* values of ACTIVE_PHASE: the three overrides, 0 (auto) and two others
PhaseOverrides == {-1, 0, 1, 2, 3, 4}

InitPhase ==
    /\ now = 0
    /\ ticks = 0
    /\ tracker = NewTracker
    /\ risk = NewRisk(0)
    /\ \E b \in PhaseBalances, m \in PhaseOverrides :
         ret = [op |-> "input", balance |-> b, manual |-> m, phase |-> 0]
    /\ recovery_wins = 0
    /\ DRY_RUN = FALSE
    /\ om = NewOrderManager
    /\ venue = NewVenue
    /\ main = NewMain(1)
    /\ arb = IdleArb
    /\ res = IdleRes

CallDeterminePhase ==
    /\ ret.op = "input"
    /\ ret' = [ret EXCEPT !.op = "determine_phase",
                          !.phase = determine_phase_with(ret.manual, ret.balance)]
    /\ UNCHANGED <<now, ticks, tracker, risk, recovery_wins, sysvars>>

NextPhase == CallDeterminePhase

SpecPhase == InitPhase /\ [][NextPhase]_vars

\* C18: phase selection is a function of (balance, override) only: when the
\* override is 1, 2 or 3 the phase equals the override for every balance;
\* otherwise the phase is 3 from phase3Threshold up, 2 from phase2Threshold up
\* to it, 1 below, and it never decreases when the balance grows.
C18_PhaseSelection ==
    ret.op = "determine_phase"
    => /\ ret.phase \in {1, 2, 3}
       /\ ret.manual \in {1, 2, 3} => ret.phase = ret.manual
       /\ ret.manual \notin {1, 2, 3}
            => /\ ret.phase = 3 <=> ret.balance >= PHASE_3_BALANCE
               /\ ret.phase >= 2 <=> ret.balance >= PHASE_2_BALANCE
       /\ \A b \in PhaseBalances :
            /\ b >= ret.balance => determine_phase_with(ret.manual, b) >= ret.phase
            /\ b = ret.balance => determine_phase_with(ret.manual, b) = ret.phase

\* the phase was computed from the balance, on the upper threshold exactly
C18_Witness ==
    /\ ret.op = "determine_phase"
    /\ ret.manual = 0
    /\ ret.balance = PHASE_3_BALANCE
    /\ ret.phase = 3

(***************************************************************************)
(* SpecLoop: main_loop and _run_strategy_safe with the exceptions they     *)
(* handle.  A strategy is taken as far as the scheduler sees it: its       *)
(* scan_and_execute awaits the scanner, then evaluates a market, calling   *)
(* check_trade with the balance it reads, and returns; it may raise at     *)
(* either point.  The balance read is at the day-start balance or 5% under *)
(* it, so the risk manager can enter its cooldown between two cycles.      *)
(* main.sleep is the argument of the asyncio.sleep main_loop is in, and    *)
(* main.dispatched the number of tasks its last iteration handed to gather.*)
(***************************************************************************)
LoopBalances == {19000, 20000}

\* the trade a strategy proposes
LoopTrade(strategy) ==
    [strategy |-> strategy, token_id |-> RiskToken, side |-> "BUY",
     price |-> 50, size |-> 40, max_loss_usd |-> 100]

\* the strategy objects main_loop holds, by the variable that runs their task
LoopTasks == {"sum_to_one_arb", "resolution_arb"}

\* _run_strategy_safe leaving the exception of scan_and_execute uncaught
run_strategy_safe_reraise(raised) == IF raised THEN "propagated" ELSE "done"

\* _run_strategy_safe: how the task ends when scan_and_execute has returned
\* or raised
run_strategy_safe(raised) == IF raised THEN "caught" ELSE "done"

\* the tasks that asyncio.gather still waits for
Running(a, r) == {p \in {a.pc, r.pc} : p \in {"fetch", "evaluate"}}

InitLoop ==
    /\ now = 0
    /\ ticks = 0
    /\ tracker = NewTracker
    /\ risk = set_day_start_balance(NewRisk(0), 20000, 0)
    /\ ret = NoRet
    /\ recovery_wins = 0
    /\ DRY_RUN \in BOOLEAN
    /\ om = NewOrderManager
    /\ venue = NewVenue
    /\ main = NewMain(1) @@ [sleep |-> 0, dispatched |-> 0]
    /\ arb = IdleArb
    /\ res = IdleRes

\* main_loop from the top of an iteration to its gather or to a sleep:
\* get_balance returns b or raises
LoopCycle ==
    /\ main.pc = "top"
    /\ main.cycle < MaxLoopCycles
    /\ \/ /\ main' = [main EXCEPT !.pc = "backoff", !.cycle = @ + 1,
                                  !.sleep = MAIN_LOOP_BACKOFF,
                                  !.dispatched = 0]
          /\ UNCHANGED <<arb, res>>
       \/ \E b \in LoopBalances :
            LET new_phase == determine_phase(b)
                strategies == build_strategies(new_phase)
            IN IF ~is_trading_allowed(risk, now)
               THEN /\ main' = [main EXCEPT !.pc = "sleep", !.cycle = @ + 1,
                                            !.phase = new_phase,
                                            !.sleep = SCAN_INTERVAL,
                                            !.dispatched = 0]
                    /\ UNCHANGED <<arb, res>>
               ELSE /\ main' = [main EXCEPT !.pc = "gather", !.cycle = @ + 1,
                                            !.phase = new_phase,
                                            !.dispatched = Cardinality(strategies)]
                    /\ arb' = IF "sum_to_one_arb" \in strategies
                              THEN [IdleArb EXCEPT !.pc = "fetch"] ELSE IdleArb
                    /\ res' = IF "resolution_arb" \in strategies
                              THEN [IdleRes EXCEPT !.pc = "fetch"] ELSE IdleRes
    /\ UNCHANGED <<now, ticks, tracker, risk, ret, recovery_wins, DRY_RUN, om, venue>>

\* the task of one strategy, from one suspension to the next or to the end of
\* _run_strategy_safe
LoopStrategy ==
    /\ \E name \in LoopTasks, raised \in BOOLEAN, b \in LoopBalances :
         LET t == IF name = "sum_to_one_arb" THEN arb ELSE res
             r == check_trade(risk, tracker, LoopTrade(name), b, now)
             t2 == [t EXCEPT !.pc = IF raised THEN run_strategy_safe(TRUE)
                                    ELSE IF t.pc = "fetch" THEN "evaluate"
                                    ELSE run_strategy_safe(FALSE)]
         IN /\ t.pc \in {"fetch", "evaluate"}
            /\ IF name = "sum_to_one_arb"
               THEN arb' = t2 /\ UNCHANGED res
               ELSE res' = t2 /\ UNCHANGED arb
            /\ IF t.pc = "evaluate" /\ ~raised
               THEN /\ risk' = r.risk
                    /\ recovery_wins' = wins_after_check(risk, now, recovery_wins)
               ELSE UNCHANGED <<risk, recovery_wins>>
    /\ UNCHANGED <<now, ticks, tracker, ret, DRY_RUN, om, venue, main>>

\* main_loop from the end of its gather to a sleep: the gather returns when
\* every task has returned, or raises as soon as one task raises; then
\* check_daily_summary returns, or raises while it emits the summary of a
\* new UTC day
LoopJoin ==
    /\ main.pc = "gather"
    /\ IF "propagated" \in {arb.pc, res.pc}
       THEN /\ main' = [main EXCEPT !.pc = "backoff", !.sleep = MAIN_LOOP_BACKOFF]
            /\ arb' = IF arb.pc = "propagated" THEN IdleArb ELSE arb
            /\ res' = IF res.pc = "propagated" THEN IdleRes ELSE res
       ELSE /\ Running(arb, res) = {}
            /\ \E summary_raised \in
                    (IF main.last_daily = None
                        \/ DayOf(main.last_daily[1]) # DayOf(now)
                     THEN BOOLEAN ELSE {FALSE}) :
                 main' = [main EXCEPT
                            !.pc = IF summary_raised THEN "backoff" ELSE "sleep",
                            !.sleep = IF summary_raised THEN MAIN_LOOP_BACKOFF
                                      ELSE SCAN_INTERVAL,
                            !.last_daily = IF @ = None \/ DayOf(@[1]) # DayOf(now)
                                           THEN Some(now) ELSE @]
            /\ arb' = IdleArb
            /\ res' = IdleRes
    /\ UNCHANGED <<now, ticks, tracker, risk, ret, recovery_wins, DRY_RUN, om, venue>>

\* the asyncio.sleep of main_loop returns
LoopWake ==
    /\ main.pc \in {"sleep", "backoff"}
    /\ main' = [main EXCEPT !.pc = "top", !.sleep = 0]
    /\ UNCHANGED <<now, ticks, tracker, risk, ret, recovery_wins, DRY_RUN, om,
                   venue, arb, res>>

NextLoop ==
    \/ Tick
    \/ LoopCycle
    \/ LoopStrategy
    \/ LoopJoin
    \/ LoopWake

SpecLoop == InitLoop /\ [][NextLoop]_vars

\* the step in which main_loop starts an iteration
CycleStarts == main.pc = "top" /\ main'.cycle = main.cycle + 1

Returned(p) == p \in {"idle", "done", "caught"}

\* C20: an exception raised inside one strategy's cycle is caught inside that
\* strategy's task: the step changes nothing but that task, the other
\* strategy and the scheduler loop go on, and the loop leaves its gather only
\* when every dispatched task has returned. An exception raised in the loop
\* outside the strategy tasks puts the loop into a sleep of 30 seconds with
\* no task running, after which the loop starts its next cycle.
C20_ExceptionsAreContained ==
    [][/\ arb'.pc = "caught" /\ arb.pc # "caught"
            => res' = res /\ main' = main /\ main.pc = "gather"
       /\ res'.pc = "caught" /\ res.pc # "caught"
            => arb' = arb /\ main' = main /\ main.pc = "gather"
       /\ main.pc = "gather" /\ main'.pc # "gather"
            => /\ Returned(arb.pc) /\ Returned(res.pc)
               /\ main'.pc \in {"sleep", "backoff"}
       /\ main'.pc = "backoff" /\ main.pc # "backoff"
            => /\ main'.sleep = MAIN_LOOP_BACKOFF
               /\ Running(arb', res') = {}
       /\ main.pc = "backoff" /\ main'.pc # "backoff"
            => main'.pc = "top" /\ main'.cycle = main.cycle]_vars

\* in a cycle after the first, one strategy raised and the other returned
\* while the loop is still in its gather
C20_Witness ==
    /\ main.cycle >= 2
    /\ main.pc = "gather"
    /\ arb.pc = "caught"
    /\ res.pc = "done"

(***************************************************************************)
(* SpecStop: main() from the end of setup to the end of graceful_shutdown. *)
(* _handle_signal clears the flag _running at any moment; main_loop tests  *)
(* it at the top of each iteration.  A holder of an aiohttp session is the *)
(* MarketScanner or one ResolutionArb instance; an instance is named by    *)
(* the build_strategies call that made it (0: the call in setup) and its   *)
(* strategy.  main.gen is the build main_loop's own list comes from,       *)
(* main.held the list main() got from setup and hands to                   *)
(* graceful_shutdown, main.used the holders that have opened a session,    *)
(* main.closed those whose close() has been called, and main.events the    *)
(* steps of graceful_shutdown so far.                                      *)
(***************************************************************************)
\* balances read during the run: the phase 2 threshold and 5% under it
StopBalances == {PHASE_2_BALANCE - PHASE_2_BALANCE \div 20, PHASE_2_BALANCE}

\* the MarketScanner made by setup
Scanner == <<0, "scanner">>

\* the strategy classes that define close() and keep a session
HasClose(name) == name = "resolution_arb"

\* the instances one build_strategies call returns
Instances(gen, phase) == {<<gen, name>> : name \in build_strategies(phase)}

InitStop ==
    /\ now = 0
    /\ ticks = 0
    /\ tracker = NewTracker
    /\ ret = NoRet
    /\ recovery_wins = 0
    /\ DRY_RUN \in BOOLEAN
    /\ om = NewOrderManager
    /\ venue = NewVenue
    /\ arb = IdleArb
    /\ res = IdleRes
    /\ \E b \in StopBalances :
         /\ risk = set_day_start_balance(NewRisk(0), b, 0)
         /\ main = NewMain(determine_phase(b)) @@
                   [sleep |-> 0, dispatched |-> 0, running |-> TRUE, gen |-> 0,
                    held |-> Instances(0, determine_phase(b)),
                    used |-> {}, closed |-> {}, events |-> <<>>]

\* _handle_signal
StopSignal ==
    /\ main.running
    /\ main' = [main EXCEPT !.running = FALSE]
    /\ UNCHANGED <<now, ticks, tracker, risk, ret, recovery_wins, DRY_RUN, om,
                   venue, arb, res>>

\* main_loop from the test of _running to its gather or to a sleep:
\* get_balance returns b or raises; a new phase rebuilds the strategies
StopCycle ==
    /\ main.pc = "top"
    /\ main.running
    /\ main.cycle < MaxStopCycles
    /\ \/ /\ main' = [main EXCEPT !.pc = "backoff", !.cycle = @ + 1,
                                  !.sleep = MAIN_LOOP_BACKOFF,
                                  !.dispatched = 0]
          /\ UNCHANGED <<arb, res>>
       \/ \E b \in StopBalances :
            LET new_phase == determine_phase(b)
                new_gen == IF new_phase # main.phase THEN main.gen + 1
                           ELSE main.gen
                strategies == build_strategies(new_phase)
            IN IF ~is_trading_allowed(risk, now)
               THEN /\ main' = [main EXCEPT !.pc = "sleep", !.cycle = @ + 1,
                                            !.phase = new_phase,
                                            !.gen = new_gen,
                                            !.sleep = SCAN_INTERVAL,
                                            !.dispatched = 0]
                    /\ UNCHANGED <<arb, res>>
               ELSE /\ main' = [main EXCEPT !.pc = "gather", !.cycle = @ + 1,
                                            !.phase = new_phase,
                                            !.gen = new_gen,
                                            !.dispatched = Cardinality(strategies)]
                    /\ arb' = IF "sum_to_one_arb" \in strategies
                              THEN [IdleArb EXCEPT !.pc = "fetch"] ELSE IdleArb
                    /\ res' = IF "resolution_arb" \in strategies
                              THEN [IdleRes EXCEPT !.pc = "fetch"] ELSE IdleRes
    /\ UNCHANGED <<now, ticks, tracker, risk, ret, recovery_wins, DRY_RUN, om, venue>>

\* the task of one strategy, from one suspension to the next or to the end of
\* _run_strategy_safe: the scanner's session is opened by the fetch, the
\* instance's own by its evaluation
StopStrategy ==
    /\ \E name \in LoopTasks, raised \in BOOLEAN, b \in StopBalances :
         LET t == IF name = "sum_to_one_arb" THEN arb ELSE res
             r == check_trade(risk, tracker, LoopTrade(name), b, now)
             t2 == [t EXCEPT !.pc = IF raised THEN run_strategy_safe(TRUE)
                                    ELSE IF t.pc = "fetch" THEN "evaluate"
                                    ELSE run_strategy_safe(FALSE)]
             opened == IF raised THEN {}
                       ELSE IF t.pc = "fetch" THEN {Scanner}
                       ELSE IF HasClose(name) THEN {<<main.gen, name>>}
                       ELSE {}
         IN /\ t.pc \in {"fetch", "evaluate"}
            /\ IF name = "sum_to_one_arb"
               THEN arb' = t2 /\ UNCHANGED res
               ELSE res' = t2 /\ UNCHANGED arb
            /\ IF t.pc = "evaluate" /\ ~raised
               THEN /\ risk' = r.risk
                    /\ recovery_wins' = wins_after_check(risk, now, recovery_wins)
               ELSE UNCHANGED <<risk, recovery_wins>>
            /\ main' = [main EXCEPT !.used = @ \cup opened]
    /\ UNCHANGED <<now, ticks, tracker, ret, DRY_RUN, om, venue>>

\* main_loop finds _running cleared and returns; main() enters its finally
StopExit ==
    /\ main.pc = "top"
    /\ ~main.running
    /\ main' = [main EXCEPT !.pc = "cancel_all"]
    /\ UNCHANGED <<now, ticks, tracker, risk, ret, recovery_wins, DRY_RUN, om,
                   venue, arb, res>>

\* graceful_shutdown: order_mgr.cancel_all()
ShutdownCancelAll ==
    /\ main.pc = "cancel_all"
    /\ main' = [main EXCEPT !.pc = "close",
                            !.events = Append(@, "cancel_all")]
    /\ UNCHANGED <<now, ticks, tracker, risk, ret, recovery_wins, DRY_RUN, om,
                   venue, arb, res>>

\* graceful_shutdown: scanner.close(), then close() on each strategy of the
\* list it was given that has one
ShutdownClose ==
    /\ main.pc = "close"
    /\ main' = [main EXCEPT !.pc = "summary",
                            !.closed = {Scanner}
                                       \cup {h \in main.held : HasClose(h[2])},
                            !.events = Append(@, "close")]
    /\ UNCHANGED <<now, ticks, tracker, risk, ret, recovery_wins, DRY_RUN, om,
                   venue, arb, res>>

\* graceful_shutdown: get_balance, which returns or raises, then the summary
ShutdownSummary ==
    /\ main.pc = "summary"
    /\ \E raised \in BOOLEAN :
         main' = IF raised THEN [main EXCEPT !.pc = "raised"]
                 ELSE [main EXCEPT !.pc = "exited",
                                   !.events = Append(@, "summary")]
    /\ UNCHANGED <<now, ticks, tracker, risk, ret, recovery_wins, DRY_RUN, om,
                   venue, arb, res>>

NextStop ==
    \/ StopSignal
    \/ StopCycle
    \/ StopStrategy
    \/ LoopJoin
    \/ LoopWake
    \/ StopExit
    \/ ShutdownCancelAll
    \/ ShutdownClose
    \/ ShutdownSummary

SpecStop == InitStop /\ [][NextStop]_vars

\* the event loop runs every coroutine that can run
FairStop ==
    /\ WF_vars(StopStrategy)
    /\ WF_vars(LoopJoin)
    /\ WF_vars(LoopWake)
    /\ WF_vars(StopExit)
    /\ WF_vars(ShutdownCancelAll)
    /\ WF_vars(ShutdownClose)
    /\ WF_vars(ShutdownSummary)

SpecStopFair == SpecStop /\ FairStop

\* the steps of graceful_shutdown in the order of its code
ShutdownOrder == <<"cancel_all", "close", "summary">>

\* the step in which graceful_shutdown calls cancel_all
CancelAllInvoked ==
    /\ Len(main'.events) = Len(main.events) + 1
    /\ main'.events[Len(main'.events)] = "cancel_all"

\* once _running is cleared no iteration starts, and cancel_all is called
\* with no task of the last iteration running
C21_Safety ==
    [][/\ ~main.running => main'.cycle = main.cycle /\ main'.dispatched = main.dispatched
       /\ CancelAllInvoked => Running(arb, res) = {} /\ Running(arb', res') = {}
       /\ main'.events = SubSeq(ShutdownOrder, 1, Len(main'.events))]_vars

\* once _running is cleared, the tasks of the iteration in flight return
\* and cancel_all and the close() calls follow
C21_ReachesClose ==
    ~main.running ~> (Running(arb, res) = {} /\ Len(main.events) >= 2)

\* C21: shutdown ordering.  Once the stop flag is set by a shutdown signal,
\* no new cycle is started, the strategies of the cycle in flight run to
\* completion, and then, eventually and in this order, cancel_all is
\* invoked, the session handles are closed and the final summary is
\* emitted; cancel_all is never invoked while a strategy of the cycle in
\* flight is still running.
C21_ShutdownOrdering ==
    /\ C21_Safety
    /\ ~main.running ~> main.events = ShutdownOrder

\* C22: during shutdown close() is invoked on every holder of a session: the
\* market catalog and every strategy instance that was ever built and
\* used, the instances created by a phase change during the run included.
C22_EveryHolderClosed ==
    "close" \in {main.events[i] : i \in 1..Len(main.events)}
        => main.used \subseteq main.closed

\* what holds: the scanner and the instances built by setup are closed
C22_SetupHoldersClosed ==
    "close" \in {main.events[i] : i \in 1..Len(main.events)}
        => {h \in main.used : h[1] = 0} \subseteq main.closed

(***************************************************************************)
(* strategies/directional_engine.py                                        *)
(*                                                                         *)
(* SpecDir: the DirectionalEngine over some cycles of a dry run, the only  *)
(* mode in which it closes the positions it opens.  A cycle is seen from   *)
(* the phase main_loop chooses on: a change away from phase 3 drops the    *)
(* instance, a change to phase 3 builds a new one.  Whether a market shows *)
(* an edge and whether the simulated bet wins are inputs.                  *)
(* main.directional is the instance main_loop holds (in phase 2, where the *)
(* list has no engine, it only carries the number of builds), and         *)
(* main.tripped the history flag "some scan began under the threshold".    *)
(***************************************************************************)
STRATEGY_NAME == "directional_engine"

\* PositionTracker.strategy_trade_history
strategy_trade_history(tr, strategy) ==
    SelectSeq(tr.trade_history, LAMBDA t : t.strategy = strategy)

\* PositionTracker.strategy_win_rate as the pair wins, trades
strategy_wins(tr, strategy) ==
    LET trades == strategy_trade_history(tr, strategy)
    IN Cardinality({i \in 1..Len(trades) : trades[i].pnl_usd >= 0})

\* PositionTracker.strategy_position_count
strategy_position_count(tr, strategy) ==
    Cardinality({i \in open_positions(tr) : tr.positions[i].strategy = strategy})

\* DirectionalEngine._check_auto_disable: the value of _disabled after it
check_auto_disable(tr, disabled) ==
    LET history == strategy_trade_history(tr, STRATEGY_NAME)
    IN IF Len(history) < DIRECTIONAL_MIN_SAMPLE THEN disabled
       ELSE IF strategy_wins(tr, STRATEGY_NAME) * 100
                   < DIRECTIONAL_AUTO_DISABLE_WINRATE * Len(history)
            THEN TRUE
            ELSE disabled

\* the balance the engine reads and the bet it sizes from it: 20 shares at 0.50
DirBalance == PHASE_3_BALANCE
DirTrade ==
    [strategy |-> STRATEGY_NAME, token_id |-> "dirYes", side |-> "BUY",
     price |-> 50, size |-> 20, max_loss_usd |-> 1000]

\* DirectionalEngine.__init__, the instance of the gen-th build
NewDirectional(gen) == [disabled |-> FALSE, gen |-> gen]

\* DirectionalEngine.scan_and_execute in a dry run: the instance, the risk
\* manager and the tracker after it, and whether it called check_trade and
\* place_limit
directional_scan(d, rk, tr, edge, win, t) ==
    IF d.disabled
    THEN [directional |-> d, risk |-> rk, tracker |-> tr,
          check_trade |-> FALSE, order |-> FALSE]
    ELSE
      LET d1 == [d EXCEPT !.disabled = check_auto_disable(tr, @)]
          open_count == strategy_position_count(tr, STRATEGY_NAME)
          r == check_trade(rk, tr, DirTrade, DirBalance, t)
          exit_price == IF win THEN 100 ELSE 0
          opened == open_position(tr, DirTrade.token_id, "m1", "YES",
                                  DirTrade.price, DirTrade.size, STRATEGY_NAME)
          closed == close_position(opened, DirTrade.token_id, exit_price,
                     DirBalance + (exit_price - DirTrade.price) * DirTrade.size, 3)
      IN IF open_count >= MAX_CONCURRENT_DIRECTIONAL \/ ~edge
         THEN [directional |-> d1, risk |-> rk, tracker |-> tr,
               check_trade |-> FALSE, order |-> FALSE]
         ELSE IF ~r.approved
         THEN [directional |-> d1, risk |-> r.risk, tracker |-> tr,
               check_trade |-> TRUE, order |-> FALSE]
         ELSE [directional |-> d1,
               risk |-> record_trade_completed(r.risk, win, t),
               tracker |-> closed.tracker,
               check_trade |-> TRUE, order |-> TRUE]

\* the engine after its first k scans, each with an edge, of which the even
\* ones up to 2 * wins won
RECURSIVE DirAfter(_, _)
DirAfter(k, wins) ==
    IF k = 0
    THEN [directional |-> NewDirectional(0),
          risk |-> set_day_start_balance(NewRisk(0), DirBalance, 0),
          tracker |-> NewTracker, check_trade |-> FALSE, order |-> FALSE]
    ELSE LET p == DirAfter(k - 1, wins)
         IN directional_scan(p.directional, p.risk, p.tracker, TRUE,
                             k % 2 = 0 /\ k \div 2 <= wins, 0)

InitDir ==
    /\ now = 0
    /\ ticks = 0
    /\ ret = NoRet
    /\ recovery_wins = 0
    /\ DRY_RUN = TRUE
    /\ om = NewOrderManager
    /\ venue = NewVenue
    /\ arb = IdleArb
    /\ res = IdleRes
    /\ \E k \in {DIRECTIONAL_MIN_SAMPLE - 1, DIRECTIONAL_MIN_SAMPLE},
          wins \in {DIRECTIONAL_MIN_SAMPLE \div 2 - 1, DIRECTIONAL_MIN_SAMPLE \div 2} :
         LET p == DirAfter(k, wins)
         IN /\ tracker = p.tracker
            /\ risk = p.risk
            /\ main = NewMain(3) @@ [directional |-> p.directional,
                                     tripped |-> FALSE]

\* the win rate of the closed directional trades is under the threshold
\* over at least the minimum sample
BelowThreshold(tr) ==
    LET n == Len(strategy_trade_history(tr, STRATEGY_NAME))
    IN /\ n >= DIRECTIONAL_MIN_SAMPLE
       /\ strategy_wins(tr, STRATEGY_NAME) * 100 < DIRECTIONAL_AUTO_DISABLE_WINRATE * n

\* one iteration of main_loop: the phase is chosen, a new phase rebuilds the
\* strategies, and in phase 3 the engine scans
DirCycle ==
    /\ main.cycle < MaxDirCycles
    /\ \E new_phase \in {2, 3}, edge \in BOOLEAN, win \in BOOLEAN :
         LET d == IF new_phase # main.phase
                  THEN NewDirectional(main.directional.gen + 1)
                  ELSE main.directional
             s == directional_scan(d, risk, tracker, edge, win, now)
         IN IF new_phase = 3
            THEN /\ main' = [main EXCEPT !.cycle = @ + 1, !.phase = new_phase,
                                         !.directional = s.directional,
                                         !.tripped = @ \/ BelowThreshold(tracker)]
                 /\ risk' = s.risk
                 /\ tracker' = s.tracker
                 /\ ret' = [op |-> "scan_and_execute", approved |-> s.order,
                            reason |-> "", check_trade |-> s.check_trade]
            ELSE /\ main' = [main EXCEPT !.cycle = @ + 1, !.phase = new_phase,
                                         !.directional = d]
                 /\ ret' = [op |-> "none", approved |-> FALSE, reason |-> "",
                            check_trade |-> FALSE]
                 /\ UNCHANGED <<risk, tracker>>
    /\ UNCHANGED <<now, ticks, recovery_wins, DRY_RUN, om, venue, arb, res>>

NextDir == DirCycle

SpecDir == InitDir /\ [][NextDir]_vars

\* C23: directional auto-disable.  Once the directional strategy has at least
\* DIRECTIONAL_MIN_SAMPLE resolved trades with a win rate below
\* DIRECTIONAL_AUTO_DISABLE_WINRATE, the next cycle sets the disabled flag
\* and the strategy attempts no further trade (no check_trade, no order) in
\* that cycle or in any later cycle of the process, a rebuild of the
\* strategies by a phase change included.
C23_AutoDisable ==
    [][(/\ ret'.op = "scan_and_execute"
        /\ main'.cycle = main.cycle + 1
        /\ BelowThreshold(tracker) \/ main.tripped)
            => /\ main'.directional.disabled
               /\ ~ret'.check_trade
               /\ ~ret'.approved]_vars

\* what holds: the scan that begins under the threshold sets the flag
C23_FlagSet ==
    [][(/\ ret'.op = "scan_and_execute"
        /\ main'.cycle = main.cycle + 1
        /\ BelowThreshold(tracker))
            => main'.directional.disabled]_vars

\* what holds: an instance whose flag is set attempts nothing
C23_DisabledInstanceIdle ==
    [][(/\ ret'.op = "scan_and_execute"
        /\ main'.cycle = main.cycle + 1
        /\ main.directional.disabled
        /\ main'.directional.gen = main.directional.gen)
            => ~ret'.check_trade /\ ~ret'.approved /\ tracker' = tracker]_vars

(***************************************************************************)
(* SpecOracle: ResolutionArb._evaluate_market on one parsed BTC market,    *)
(* from the two price fetches to the decision to place an order.  The      *)
(* inputs (what CoinGecko and Binance returned, in dollars, None for a     *)
(* failed fetch; the direction of the question; the asks of the winning    *)
(* token) are drawn in the initial state and kept in ret.                  *)
(***************************************************************************)
\* the strike of the question, dollars
Strike == 100000

\* prices a source may return: at the strike, 0.5% under it, 0.4% and 0.6%
\* over the strike, and 2% over and under it (even, so that the mean of two
\* is a whole number)
OraclePrices == {99500, 100000, 100400, 100600, 102000, 98000}

Abs(x) == IF x >= 0 THEN x ELSE -x

\* _get_btc_price_confirmed from what _fetch_coingecko and _fetch_binance
\* returned
get_btc_price_confirmed(cg_price, bn_price) ==
    IF cg_price # None /\ bn_price # None
    THEN IF Abs(cg_price[1] - bn_price[1]) * 1000
                < ORACLE_AGREEMENT_MILLI * Max2(cg_price[1], bn_price[1])
         THEN Some((cg_price[1] + bn_price[1]) \div 2)
         ELSE None
    ELSE IF cg_price # None THEN cg_price ELSE bn_price

\* _evaluate_market from the confirmed price to the winning side ("none":
\* it returns before it reads an order book)
winning_side(btc_price, strike, above) ==
    IF btc_price = None THEN "none"
    ELSE IF Abs(btc_price[1] - strike) * 1000 < PRICE_BUFFER_MILLI * strike
    THEN "none"
    ELSE IF above = (btc_price[1] > strike) THEN "YES" ELSE "NO"

InitOracle ==
    /\ now = 0
    /\ ticks = 0
    /\ tracker = NewTracker
    /\ risk = set_day_start_balance(NewRisk(0), 20000, 0)
    /\ recovery_wins = 0
    /\ DRY_RUN = FALSE
    /\ om = NewOrderManager
    /\ venue = NewVenue
    /\ main = NewMain(1)
    /\ arb = IdleArb
    /\ res = IdleRes
    /\ \E cg \in {None} \cup {Some(p) : p \in OraclePrices},
          bn \in {None} \cup {Some(p) : p \in OraclePrices},
          above \in BOOLEAN,
          asks \in {<<Level(80, 100)>>, <<Level(98, 100)>>} :
         ret = [op |-> "input", cg_price |-> cg, bn_price |-> bn,
                above |-> above, asks |-> asks, side |-> "none",
                approved |-> FALSE]

\* _evaluate_market on the inputs: ret.side is the side it took for the
\* winner, ret.approved whether it went on to place_limit
OracleEvaluate ==
    /\ ret.op = "input"
    /\ LET btc_price == get_btc_price_confirmed(ret.cg_price, ret.bn_price)
           side == winning_side(btc_price, Strike, ret.above)
           token_id == IF side = "YES" THEN Market.yes_token_id
                       ELSE Market.no_token_id
           e == resolution_evaluate(risk, tracker, token_id, ret.asks, 20000, now)
       IN IF side = "none"
          THEN /\ ret' = [ret EXCEPT !.op = "evaluate_market"]
               /\ UNCHANGED risk
          ELSE /\ ret' = [ret EXCEPT !.op = "evaluate_market", !.side = side,
                                     !.approved = e.go]
               /\ risk' = e.risk
    /\ UNCHANGED <<now, ticks, tracker, recovery_wins, DRY_RUN, om, venue, main,
                   arb, res>>

NextOracle == OracleEvaluate

SpecOracle == InitOracle /\ [][NextOracle]_vars

\* both sources returned a price and the two differ by less than 0.5%
OraclesAgree ==
    /\ ret.cg_price # None
    /\ ret.bn_price # None
    /\ Abs(ret.cg_price[1] - ret.bn_price[1]) * 1000
           < 5 * Max2(ret.cg_price[1], ret.bn_price[1])

\* C24: the resolution strategy acts on a market only when both oracles
\* returned a price and their relative difference is below 0.5%; in every
\* other case (the oracles disagree, or either failed to return a price) it
\* abstains from the market in this cycle and submits no order.
C24_ActsOnlyOnAgreement ==
    ret.op = "evaluate_market" /\ ~OraclesAgree
        => ret.side = "none" /\ ~ret.approved

\* what holds: when both sources returned a price the strategy acts only if
\* they agree, and when neither did it abstains
C24_BothOrNeither ==
    (/\ ret.op = "evaluate_market"
     /\ ~OraclesAgree
     /\ (ret.cg_price = None) = (ret.bn_price = None))
        => ret.side = "none" /\ ~ret.approved

(***************************************************************************)
(* core/market_scanner.py                                                  *)
(*                                                                         *)
(* SpecCatalog: the MarketScanner over some calls of fetch_active_markets. *)
(* The Gamma API holds the markets 1..n and serves them in pages of        *)
(* PAGE_LIMIT; the request of page fail_at fails (an exception or a status *)
(* other than 200), 0 meaning that none does.  main.scanner is the         *)
(* scanner object, ret what the last call returned and met.                *)
(***************************************************************************)
\* MarketScanner.__init__
NewScanner == [cache |-> <<>>, last_full_fetch |-> 0, known_market_ids |-> {}]

\* numbers of active markets at the Gamma API: none, a short page, a full
\* page, a full page and a short one
CatalogSizes == {0, 3, PAGE_LIMIT, PAGE_LIMIT + 3}

\* the page loop of fetch_active_markets from the request at offset on
RECURSIVE fetch_pages(_, _, _, _, _)
fetch_pages(n, offset, page, fail_at, markets) ==
    IF page = fail_at THEN [markets |-> markets, failed |-> TRUE]
    ELSE LET data == [i \in 1..Min2(PAGE_LIMIT, n - offset) |-> offset + i]
         IN IF data = <<>> THEN [markets |-> markets, failed |-> FALSE]
            ELSE IF Len(data) < PAGE_LIMIT
            THEN [markets |-> markets \o data, failed |-> FALSE]
            ELSE fetch_pages(n, offset + PAGE_LIMIT, page + 1, fail_at,
                             markets \o data)

\* MarketScanner.fetch_active_markets at time t
fetch_active_markets(sc, t, n, fail_at) ==
    IF sc.cache # <<>> /\ t - sc.last_full_fetch < CACHE_MINUTES
    THEN [scanner |-> sc, markets |-> sc.cache, requested |-> FALSE,
          failed |-> FALSE]
    ELSE LET f == fetch_pages(n, 0, 1, fail_at, <<>>)
         IN [scanner |-> [cache |-> f.markets, last_full_fetch |-> t,
                          known_market_ids |->
                              sc.known_market_ids
                              \cup {f.markets[i] : i \in 1..Len(f.markets)}],
             markets |-> f.markets, requested |-> TRUE, failed |-> f.failed]

InitCatalog ==
    /\ now = 0
    /\ ticks = 0
    /\ tracker = NewTracker
    /\ risk = NewRisk(0)
    /\ ret = NoRet
    /\ recovery_wins = 0
    /\ DRY_RUN = FALSE
    /\ om = NewOrderManager
    /\ venue = NewVenue
    /\ main = NewMain(1) @@ [scanner |-> NewScanner]
    /\ arb = IdleArb
    /\ res = IdleRes

\* a strategy calls fetch_active_markets
CatalogFetch ==
    /\ main.cycle < MaxFetches
    /\ \E n \in CatalogSizes, fail_at \in 0..2 :
         LET r == fetch_active_markets(main.scanner, now, n, fail_at)
         IN /\ main' = [main EXCEPT !.cycle = @ + 1, !.scanner = r.scanner]
            /\ ret' = [op |-> "fetch_active_markets", approved |-> ~r.failed,
                       reason |-> "", markets |-> r.markets,
                       requested |-> r.requested]
    /\ UNCHANGED <<now, ticks, tracker, risk, recovery_wins, DRY_RUN, om, venue,
                   arb, res>>

\* a minute passes
CatalogTick ==
    /\ ticks < MaxTicks
    /\ ticks' = ticks + 1
    /\ now' = now + CACHE_MINUTES
    /\ UNCHANGED <<tracker, risk, ret, recovery_wins, DRY_RUN, om, venue, main,
                   arb, res>>

NextCatalog == CatalogFetch \/ CatalogTick

SpecCatalog == InitCatalog /\ [][NextCatalog]_vars

\* the step is a call of fetch_active_markets one of whose requests failed
FetchFailed ==
    /\ main'.cycle = main.cycle + 1
    /\ ret'.op = "fetch_active_markets"
    /\ ~ret'.approved

\* C25: CatalogStale.  When a catalog fetch fails (a network error or a
\* status other than 200 on any page) and a previously fetched cache is
\* present, fetch_active_markets returns that stale cache and leaves the
\* cache unchanged; only when no cache is present does the cycle yield no
\* candidates.
C25_StaleCacheOnFailure ==
    [][FetchFailed
         => /\ main.scanner.cache # <<>>
                  => /\ ret'.markets = main.scanner.cache
                     /\ main'.scanner.cache = main.scanner.cache
            /\ ret'.markets = <<>> => main.scanner.cache = <<>>]_vars

\* what holds: a call that finds a cache younger than a minute returns it
\* without a request, and a call none of whose requests fails returns and
\* caches the whole catalog it then finds
C25_CacheAndFullFetch ==
    [][(main'.cycle = main.cycle + 1 /\ ret'.op = "fetch_active_markets")
         => /\ (main.scanner.cache # <<>>
                /\ now - main.scanner.last_full_fetch < CACHE_MINUTES)
                   => /\ ~ret'.requested
                      /\ ret'.markets = main.scanner.cache
                      /\ main'.scanner = main.scanner
            /\ (ret'.requested /\ ret'.approved)
                   => /\ main'.scanner.cache = ret'.markets
                      /\ Len(ret'.markets) \in CatalogSizes
                      /\ ret'.markets = [i \in 1..Len(ret'.markets) |-> i]]_vars

(***************************************************************************)
(* SpecWalk: walk_book_asks and walk_book_bids applied to one side of a    *)
(* book.  The side and the target are drawn in the initial state and kept  *)
(* in ret, to which the walk adds its FillEstimate.                        *)
(***************************************************************************)
\* the levels a side is made of, in any order: two prices, two sizes
WalkLevels == {Level(p, s) : p \in {40, 60}, s \in {5, 10}}

\* sides of 0 to MaxLevels levels
RECURSIVE WalkBooks(_)
WalkBooks(n) ==
    IF n = 0 THEN {<<>>}
    ELSE WalkBooks(n - 1)
         \cup {Append(b, l) : b \in {x \in WalkBooks(n - 1) : Len(x) = n - 1},
                              l \in WalkLevels}

\* targets: negative, zero, inside the first level, at a level's end, inside
\* a later level, beyond every side
WalkTargets == {-5, 0, 3, 5, 12, 15, 40}

InitWalk ==
    /\ now = 0
    /\ ticks = 0
    /\ tracker = NewTracker
    /\ risk = NewRisk(0)
    /\ recovery_wins = 0
    /\ DRY_RUN = FALSE
    /\ om = NewOrderManager
    /\ venue = NewVenue
    /\ main = NewMain(1)
    /\ arb = IdleArb
    /\ res = IdleRes
    /\ \E book \in WalkBooks(MaxLevels), target \in WalkTargets :
         ret = [op |-> "input", book |-> book, target |-> target,
                side |-> "", fill |-> walk_book_asks(<<>>, 0)]

\* a caller walks the asks
WalkAsks ==
    /\ ret.op = "input"
    /\ ret' = [ret EXCEPT !.op = "walk", !.side = "asks",
                          !.fill = walk_book_asks(ret.book, ret.target)]
    /\ UNCHANGED <<now, ticks, tracker, risk, recovery_wins, DRY_RUN, om, venue,
                   main, arb, res>>

\* a caller walks the bids
WalkBids ==
    /\ ret.op = "input"
    /\ ret' = [ret EXCEPT !.op = "walk", !.side = "bids",
                          !.fill = walk_book_bids(ret.book, ret.target)]
    /\ UNCHANGED <<now, ticks, tracker, risk, recovery_wins, DRY_RUN, om, venue,
                   main, arb, res>>

NextWalk == WalkAsks \/ WalkBids

SpecWalk == InitWalk /\ [][NextWalk]_vars

\* the size of the first n levels
RECURSIVE SizeOfLevels(_, _)
SizeOfLevels(book, n) ==
    IF n = 0 THEN 0 ELSE SizeOfLevels(book, n - 1) + book[n].size

\* what a greedy walk for target takes from level i: what is left of the
\* target once the levels before i are consumed whole, up to the level's size
Consumed(book, i, target) ==
    Min2(Max2(target - SizeOfLevels(book, i - 1), 0), book[i].size)

RECURSIVE CostOfConsumed(_, _, _)
CostOfConsumed(book, n, target) ==
    IF n = 0 THEN 0
    ELSE CostOfConsumed(book, n - 1, target)
         + book[n].price * Consumed(book, n, target)

\* C26: for any price-level sequence and any target T > 0 the book walk
\* consumes min(remaining, level.size) greedily in sequence order, and
\* yields total_filled <= T, total_filled <= the sum of the level sizes, and
\* total_cost equal to the sum over the levels of price times the quantity
\* consumed at that level; the ask walk and the bid walk give the same
\* result on the same sequence.
C26_GreedyWalk ==
    ret.op = "walk" /\ ret.target > 0
        => /\ ret.fill.total_filled <= ret.target
           /\ ret.fill.total_filled <= SizeOfLevels(ret.book, Len(ret.book))
           /\ ret.fill.total_filled =
                  Min2(ret.target, SizeOfLevels(ret.book, Len(ret.book)))
           /\ ret.fill.total_cost =
                  CostOfConsumed(ret.book, Len(ret.book), ret.target)
           /\ ret.fill.levels_consumed =
                  Cardinality({i \in 1..Len(ret.book) :
                                   Consumed(ret.book, i, ret.target) > 0})
           /\ walk_book_asks(ret.book, ret.target)
                  = walk_book_bids(ret.book, ret.target)

\* a walk that took the first level whole and a part of the second
C26_Witness ==
    /\ ret.op = "walk"
    /\ ret.side = "bids"
    /\ Len(ret.book) = 3
    /\ ret.target = 12
    /\ ret.book[1].size = 5
    /\ ret.book[2].size = 10
    /\ ret.fill.total_filled = 12
    /\ ret.fill.levels_consumed = 2
    /\ ret.fill.total_cost = 5 * ret.book[1].price + 7 * ret.book[2].price

\* C27: every FillEstimate returned by the book walk satisfies
\* fully_fillable == (total_filled == target), for every side (the empty
\* side included) and every target (target = 0 and target < 0 included, for
\* which the estimate is zero-filled).
C27_FullyFillableIffFilled ==
    ret.op = "walk"
        => /\ ret.fill.fully_fillable <=> ret.fill.total_filled = ret.target
           /\ ret.target <= 0 => ret.fill.total_filled = 0
                                 /\ ret.fill.total_cost = 0

\* what holds: the same for the targets that are not negative
C27_NonNegativeTargets ==
    ret.op = "walk" /\ ret.target >= 0
        => /\ ret.fill.fully_fillable <=> ret.fill.total_filled = ret.target
           /\ ret.target = 0 => ret.fill.total_filled = 0
                                /\ ret.fill.total_cost = 0

(***************************************************************************)
(* The order of check_trade's gates, checked under SpecRisk: in every      *)
(* state the risk manager and the tracker reach, check_trade is applied to *)
(* each trade and balance below.                                           *)
(***************************************************************************)
\* trades at 0.50: under the minimum, plain, 15%, 25% of 20000, over the
\* maximum; worst-case loss 0.5% or 5% of 20000; either strategy
GateTrades ==
    {[strategy |-> st, token_id |-> RiskToken, side |-> "BUY", price |-> 50,
      size |-> s, max_loss_usd |-> l] :
        st \in {RiskStrategy, "sum_to_one_arb"},
        s \in {2, 40, 60, 100, 300},
        l \in {100, 1000}}

\* balances: none, 5% under the day's start, the day's start, five times it
GateBalances == {0, 19000, 20000, 100000}

\* the gates in the order claimed
GateOrder ==
    <<"cooldown", "drawdown", "consecutive_losses", "single_loss",
      "position_size", "total_exposure", "strategy_exposure", "too_small",
      "too_large">>

\* whether the call check_trade(trade, b) made now meets the condition of
\* gate g; a cooldown that has expired counts as RECOVERY
GateFails(g, trade, b) ==
    LET cooling == risk.state = "COOLDOWN" /\ now < risk.cooldown_until
        recovering == risk.state \in {"COOLDOWN", "RECOVERY"}
        cost == trade.price * trade.size
    IN CASE g = "cooldown" -> cooling
         [] g = "drawdown" ->
                /\ risk.day_start_balance > 0
                /\ (risk.day_start_balance - b) * 100
                       >= MAX_DAILY_DRAWDOWN_PCT * risk.day_start_balance
         [] g = "consecutive_losses" ->
                /\ tracker.consecutive_losses >= MAX_CONSECUTIVE_LOSSES
                /\ ~recovering
         [] g = "single_loss" ->
                b > 0 /\ trade.max_loss_usd * 100 > MAX_SINGLE_LOSS_PCT * b
         [] g = "position_size" ->
                b > 0 /\ cost * 100 > MAX_POSITION_PCT * b
         [] g = "total_exposure" ->
                b > 0 /\ (total_exposure(tracker) + cost) * 100
                            > MAX_TOTAL_EXPOSURE_PCT * b
         [] g = "strategy_exposure" ->
                b > 0 /\ (strategy_exposure(tracker, trade.strategy) + cost) * 100
                            > MAX_STRATEGY_EXPOSURE_PCT * b
         [] g = "too_small" -> cost < MIN_TRADE_USD
         [] g = "too_large" -> cost > MAX_TRADE_USD

\* the positions in GateOrder of the gates the call fails
Failing(trade, b) ==
    {i \in 1..Len(GateOrder) : GateFails(GateOrder[i], trade, b)}

WithinSizeLimits(trade, b) ==
    LET cost == cost_usd(trade) IN
    /\ MIN_TRADE_USD <= cost /\ cost <= MAX_TRADE_USD
    /\ cost * 100 <= MAX_POSITION_PCT * b
    /\ trade.max_loss_usd * 100 <= MAX_SINGLE_LOSS_PCT * b
    /\ (total_exposure(tracker) + cost) * 100 <= MAX_TOTAL_EXPOSURE_PCT * b

\* C39 (as claimed): whenever check_trade approves, at every balance (a
\* balance of zero and a day-start balance of zero included), the trade is
\* inside all the size limits: minimum cash <= cost <= maximum cash, cost <=
\* MAX_POSITION_PCT of the balance, worst-case loss <= MAX_SINGLE_LOSS_PCT of
\* the balance, total exposure + cost <= MAX_TOTAL_EXPOSURE_PCT of the balance.
C39_ApprovedWithinLimits ==
    \A trade \in GateTrades, b \in GateBalances :
        check_trade(risk, tracker, trade, b, now).approved
            => WithinSizeLimits(trade, b)

\* what holds of the code: an approved trade is inside the cash limits at
\* every balance, and inside the percentage limits at every positive balance
C39_ApprovedWithinLimitsFunded ==
    \A trade \in GateTrades, b \in GateBalances :
        check_trade(risk, tracker, trade, b, now).approved
            => /\ MIN_TRADE_USD <= cost_usd(trade)
               /\ cost_usd(trade) <= MAX_TRADE_USD
               /\ b > 0 => WithinSizeLimits(trade, b)

\* some trade is approved at a positive balance, and some at a balance of zero
C39_ApprovedAtZero ==
    /\ \E trade \in GateTrades : check_trade(risk, tracker, trade, 0, now).approved
    /\ \E trade \in GateTrades, b \in GateBalances \ {0} :
         check_trade(risk, tracker, trade, b, now).approved
    /\ tracker.positions # <<>>

(***************************************************************************)
(* Claims about the outcomes of _monitor_arb_fills, checked under Spec     *)
(***************************************************************************)
\* the loop of _monitor_arb_fills finds both legs filled
BothObserved == arb.monitor = "none" /\ arb'.monitor = "both_filled"

\* the deadline of _monitor_arb_fills passes; arb.yes_filled and arb.no_filled
\* are what the loop has observed
DeadlinePassed == arb.pc = "poll" /\ arb'.monitor = "timeout"

\* _recover_filled_leg returns
RecoveryReturns == arb.pc \in {"sell_wait", "sell_backoff"} /\ arb'.pc = "done"

Other(leg) == IF leg = "yes" THEN "no" ELSE "yes"

\* what holds of both readings of the claim: the outcome when both legs are
\* observed filled, when neither is, and the tickets at the deadline when
\* exactly one is
TimeoutOutcomes ==
    /\ BothObserved
         => /\ om'.tickets["yes"].status = "filled"
            /\ om'.tickets["no"].status = "filled"
            /\ om'.tickets["sell"] = AbsentTicket
            /\ venue' = venue
            /\ arb'.pc = "done"
    /\ (DeadlinePassed /\ ~arb.yes_filled /\ ~arb.no_filled)
         => /\ om'.tickets["yes"].status = "cancelled"
            /\ om'.tickets["no"].status = "cancelled"
            /\ om'.tickets["sell"] = AbsentTicket
            /\ venue'.orders["sell"] = "none"
            /\ arb'.pc = "done"
    /\ \A leg \in {"yes", "no"} :
         (DeadlinePassed /\ arb[leg \o "_filled"] /\ ~arb[Other(leg) \o "_filled"])
           => /\ om'.tickets[Other(leg)].status = "cancelled"
              /\ om'.tickets[leg].status = "filled"
              /\ om'.tickets["sell"].token_id = om.tickets[leg].token_id
              /\ om'.tickets["sell"].side = "SELL"
              /\ om'.tickets["sell"].price = om.tickets[leg].price
              /\ om'.tickets["sell"].size = om.tickets[leg].size
              /\ arb'.pc \in {"sell_wait", "sell_backoff"}
    \* the SELL ticket is the only one made, and it is not changed but in its
    \* status and its order id
    /\ arb.pc \in {"sell_wait", "sell_backoff"}
         => /\ om'.tickets["sell"].token_id = om.tickets["sell"].token_id
            /\ om'.tickets["sell"].price = om.tickets["sell"].price
            /\ om'.tickets["sell"].size = om.tickets["sell"].size
            /\ om'.tickets["yes"] = om.tickets["yes"]
            /\ om'.tickets["no"] = om.tickets["no"]
    \* a SELL order reaches the venue at most once
    /\ (venue.orders["sell"] = "none" /\ venue'.orders["sell"] # "none")
         => /\ om.tickets["sell"].status \in {"absent", "pending"}
            /\ om'.tickets["sell"].status = "submitted"
            /\ venue'.orders["sell"] = "open"
    /\ venue.orders["sell"] # "none" => venue'.orders["sell"] # "open"
                                        \/ venue.orders["sell"] = "open"

cancel_all_every(o, v, dry, ok) ==
    IF dry \/ ok
    THEN [om |-> [o EXCEPT !.tickets =
                     [s \in Slots |->
                        IF s \in o.active_orders
                        THEN [o.tickets[s] EXCEPT !.status = "cancelled"]
                        ELSE o.tickets[s]]],
          venue |-> IF dry THEN v
                    ELSE [v EXCEPT !.orders =
                            [s \in Slots |-> IF v.orders[s] = "open"
                                             THEN "cancelled" ELSE v.orders[s]]]]
    ELSE [om |-> o, venue |-> v]

\* cancel_all; ok tells whether cancel_all_orders returns (it raises
\* otherwise, the exception is logged and no ticket is touched)
cancel_all(o, v, dry, ok) ==
    IF dry \/ ok
    THEN [om |-> [o EXCEPT !.tickets =
                     [s \in Slots |->
                        IF s \in o.active_orders
                           /\ o.tickets[s].status = "submitted"
                        THEN [o.tickets[s] EXCEPT !.status = "cancelled"]
                        ELSE o.tickets[s]]],
          venue |-> IF dry THEN v
                    ELSE [v EXCEPT !.orders =
                            [s \in Slots |-> IF v.orders[s] = "open"
                                             THEN "cancelled" ELSE v.orders[s]]]]
    ELSE [om |-> o, venue |-> v]

\* no call of the order manager is in flight
NoCallInFlight == arb.pc \in {"idle", "done"} /\ res.pc \in {"idle", "done"}

\* cancel_all is called and returns
CancelAll ==
    /\ NoCallInFlight
    /\ \E ok \in BOOLEAN :
         LET c == cancel_all(om, venue, DRY_RUN, ok)
         IN /\ om' = c.om
            /\ venue' = c.venue
    /\ UNCHANGED <<now, ticks, tracker, risk, ret, recovery_wins, DRY_RUN, main,
                   arb, res>>

NextTickets ==
    \/ Midnight
    \/ MainCycle
    \/ MainJoin
    \/ MainWake
    \/ ArbScan
    \/ ArbLeg
    \/ ArbGathered
    \/ ArbPoll
    \/ ArbSellRetry
    \/ ArbSellChecked
    \/ ResScan
    \/ ResEvaluate
    \/ ResRetry
    \/ VenueFill
    \/ CancelAll

SpecTickets == Init /\ [][NextTickets]_vars

\* the changes of status an OrderTicket may make
StatusSteps ==
    {<<"pending", "submitted">>, <<"pending", "failed">>,
     <<"submitted", "filled">>, <<"submitted", "cancelled">>}

\* a ticket is made in the slot (place_limit runs from its start to its first
\* suspension or to its return), or the ticket of a returned task is dropped
TicketMade(slot) ==
    /\ om.tickets[slot] = AbsentTicket
    /\ om'.tickets[slot].status \in {"pending", "submitted"}

TicketDropped(slot) == om'.tickets[slot] = AbsentTicket

\* C30: the status of an OrderTicket advances monotonically: the only changes
\* that ever occur are pending->submitted, pending->failed, submitted->filled
\* and submitted->cancelled, and a ticket in filled, cancelled or failed never
\* changes status again, under place_limit, place_arb_pair (monitoring and
\* recovery included) and cancel_all called in any order.
C30_StatusMonotonic ==
    [][\A slot \in Slots :
         \/ om'.tickets[slot].status = om.tickets[slot].status
         \/ <<om.tickets[slot].status, om'.tickets[slot].status>> \in StatusSteps
         \/ TicketMade(slot)
         \/ TicketDropped(slot)
      ]_vars

\* cancel_all has run over a pair whose monitoring timed out with one leg
\* filled and the recovery SELL submitted: the SELL ticket is cancelled, the
\* legs stay filled and cancelled
C30_Witness ==
    /\ arb.pc = "done"
    /\ arb.monitor = "timeout"
    /\ om.tickets["yes"].status = "filled"
    /\ om.tickets["no"].status = "cancelled"
    /\ om.tickets["sell"].status = "cancelled"
    /\ venue.orders["no"] = "cancelled"

\* C38: a ticket has status cancelled only if a venue cancel call covering
\* that order (cancel_order for it, or cancel_all_orders) returned: if the
\* venue cancel raises, the ticket is not marked cancelled.  A cancel call
\* that has returned leaves no order of the ticket open at the venue.
C38_CancelledOnlyIfVenueCancelled ==
    \A slot \in Slots :
        om.tickets[slot].status = "cancelled" => venue.orders[slot] # "open"

\* what the code does keep: the same, for every ticket but the legs of a pair
\* whose monitoring timed out, which _monitor_arb_fills marks cancelled
\* whatever became of their cancel
C38_CancelledOutsideTimeout ==
    \A slot \in Slots :
        (/\ om.tickets[slot].status = "cancelled"
         /\ ~(arb.monitor = "timeout" /\ slot \in {"yes", "no"}))
          => venue.orders[slot] # "open"

(***************************************************************************)
(* Claims about the ledger after a sum-to-one pair, checked under Spec     *)
(***************************************************************************)
\* the strategy returns from a pair whose two legs are filled
BothFilledReturn ==
    /\ ArbReturns
    /\ om'.tickets["yes"].status = "filled"
    /\ om'.tickets["no"].status = "filled"

\* the two positions of the pair are appended, YES then NO, and both are
\* closed at the terminal prices; the positions held before are as they were
PairOpenedAndClosed ==
    LET n == Len(tracker.positions) IN
    /\ Len(tracker'.positions) = n + 2
    /\ SubSeq(tracker'.positions, 1, n) = tracker.positions
    /\ tracker'.positions[n + 1].side = "YES"
    /\ tracker'.positions[n + 1].token_id = Market.yes_token_id
    /\ tracker'.positions[n + 1].exit_price = Some(100)
    /\ tracker'.positions[n + 2].side = "NO"
    /\ tracker'.positions[n + 2].token_id = Market.no_token_id
    /\ tracker'.positions[n + 2].exit_price = Some(0)

C31_TwoTradeRecords ==
    [][BothFilledReturn
         => /\ PairOpenedAndClosed
            /\ Len(tracker'.trade_history) = Len(tracker.trade_history) + 2
            /\ tracker'.trade_history[Len(tracker.trade_history) + 1].side = "YES"
            /\ tracker'.trade_history[Len(tracker.trade_history) + 2].side = "NO"
      ]_vars

\* the positions a step appends to the ledger
NewPositions ==
    {i \in 1..Len(tracker'.positions) : i > Len(tracker.positions)}

\* the ticket of the BUY order a position of the engine stands for
TicketOf(pos) ==
    IF pos.strategy = "resolution_arb" THEN om'.tickets["res"]
    ELSE IF pos.side = "YES" THEN om'.tickets["yes"]
    ELSE om'.tickets["no"]

\* C36: in live mode a position is opened in the ledger only for a BUY order
\* that has been observed filled: an order that is merely submitted (resting
\* on the book), later cancelled, or failed never produces an open ledger
\* position, for the single-order strategies as well as for the paired ones.
C36_OpenedOnlyWhenFilled ==
    [][~DRY_RUN
         => \A i \in NewPositions :
              /\ TicketOf(tracker'.positions[i]).side = "BUY"
              /\ TicketOf(tracker'.positions[i]).token_id
                     = tracker'.positions[i].token_id
              /\ TicketOf(tracker'.positions[i]).status = "filled"
      ]_vars

\* what the code does: the paired strategy opens a position for a leg marked
\* filled only; the single-order strategy opens it for an order that
\* place_limit has submitted, whether or not it has filled
C36_OpenedWhenSubmitted ==
    [][~DRY_RUN
         => \A i \in NewPositions :
              /\ TicketOf(tracker'.positions[i]).side = "BUY"
              /\ TicketOf(tracker'.positions[i]).token_id
                     = tracker'.positions[i].token_id
              /\ TicketOf(tracker'.positions[i]).status
                   = (IF tracker'.positions[i].strategy = "resolution_arb"
                      THEN "submitted" ELSE "filled")
      ]_vars

\* C37: a both-filled sum-to-one pair is counted as a win by the ledger's
\* streak bookkeeping: completing such a pair never increases
\* consecutive_losses and never resets consecutive_wins to zero.
C37_PairCountsAsWin ==
    [][BothFilledReturn
         => /\ tracker'.consecutive_losses <= tracker.consecutive_losses
            /\ tracker'.consecutive_wins # 0
      ]_vars

\* what the code does: the close of the NO leg at 0.0 is booked as a loss
\* after the close of the YES leg was booked as a win, so that every
\* both-filled pair leaves one consecutive loss and no consecutive win
C37_PairLeavesOneLoss ==
    [][BothFilledReturn
         => /\ tracker'.consecutive_losses = 1
            /\ tracker'.consecutive_wins = 0
            /\ tracker'.max_loss_streak >= 1
            /\ tracker'.max_win_streak >= tracker.consecutive_wins + 1
      ]_vars

(***************************************************************************)
(* strategies/new_market_sniper.py: the classification of a new market by  *)
(* the sum of its best asks.  Prices are in thousandths of a dollar here.  *)
(***************************************************************************)
\* the classification with a sum equal to the high-priority threshold taken
\* as standard
sniper_classify_strict(yes_best, no_best) ==
    IF yes_best = None \/ no_best = None THEN "return"
    ELSE LET naive_sum == yes_best[1] + no_best[1] IN
         IF naive_sum > EFFICIENT_SUM_MILLI THEN "return"
         ELSE IF naive_sum < HIGH_PRIORITY_THRESHOLD_MILLI THEN "HIGH"
         ELSE "STANDARD"

\* _evaluate_market from the best asks to the priority: "return" when it
\* returns before sizing the trade
sniper_classify(yes_best, no_best) ==
    IF yes_best = None \/ no_best = None THEN "return"
    ELSE LET naive_sum == yes_best[1] + no_best[1] IN
         IF naive_sum > EFFICIENT_SUM_MILLI THEN "return"
         ELSE IF naive_sum <= HIGH_PRIORITY_THRESHOLD_MILLI THEN "HIGH"
         ELSE "STANDARD"

\* best asks of the two books: the sums reach each threshold, the values next
\* to it and 1.00
YesBests == {450, 455, 470, 500}
NoBests == {440, 470, 471, 485, 490, 500, 515, 516, 520, 535, 536}

InitSniper ==
    /\ now = 0
    /\ ticks = 0
    /\ tracker = NewTracker
    /\ risk = set_day_start_balance(NewRisk(0), PHASE_2_BALANCE, 0)
    /\ recovery_wins = 0
    /\ DRY_RUN = FALSE
    /\ om = NewOrderManager
    /\ venue = NewVenue
    /\ main = NewMain(2)
    /\ arb = IdleArb
    /\ res = IdleRes
    /\ \E y \in {None} \cup {Some(p) : p \in YesBests},
          n \in {None} \cup {Some(p) : p \in NoBests} :
         ret = [op |-> "input", yes_best |-> y, no_best |-> n, priority |-> ""]

\* _evaluate_market on the two best asks
SniperClassify ==
    /\ ret.op = "input"
    /\ ret' = [ret EXCEPT !.op = "classified",
                          !.priority = sniper_classify(ret.yes_best, ret.no_best)]
    /\ UNCHANGED <<now, ticks, tracker, risk, recovery_wins, DRY_RUN, om, venue,
                   main, arb, res>>

NextSniper == SniperClassify

SpecSniper == InitSniper /\ [][NextSniper]_vars

\* a market with both best asks has been classified
Classified ==
    ret.op = "classified" /\ ret.yes_best # None /\ ret.no_best # None

NaiveSum == ret.yes_best[1] + ret.no_best[1]

MarketOutcomes == {"edge", "fails", "no_edge"}

RECURSIVE MarketLists(_)
MarketLists(n) ==
    IF n = 0 THEN {<<>>}
    ELSE MarketLists(n - 1)
           \cup {Append(l, m) : l \in {k \in MarketLists(n - 1) : Len(k) = n - 1},
                                m \in MarketOutcomes}

\* the YES token of the i-th BTC market
DirToken(i) == <<"dir1", "dir2", "dir3", "dir4", "dir5">>[i]

\* _evaluate_market on the i-th market: the risk manager and the tracker
\* after it and whether it traded
directional_evaluate(rk, tr, dry, i, outcome, win, t) ==
    LET trade == [DirTrade EXCEPT !.token_id = DirToken(i)]
        size_usd == trade.price * trade.size
        r == check_trade(rk, tr, trade, DirBalance, t)
        exit_price == IF win THEN 100 ELSE 0
        opened == open_position(tr, trade.token_id, "m1", "YES", trade.price,
                                trade.size, STRATEGY_NAME)
        closed == close_position(opened, trade.token_id, exit_price,
                     DirBalance + (exit_price - trade.price) * trade.size, 3)
    IN IF outcome = "no_edge"
       THEN [risk |-> rk, tracker |-> tr, traded |-> FALSE]
       ELSE IF (strategy_exposure(tr, STRATEGY_NAME) + size_usd) * 100
                  > MAX_TOTAL_DIRECTIONAL_PCT * DirBalance
       THEN [risk |-> rk, tracker |-> tr, traded |-> FALSE]
       ELSE IF ~r.approved
       THEN [risk |-> r.risk, tracker |-> tr, traded |-> FALSE]
       ELSE IF ~dry /\ outcome = "fails"
       THEN [risk |-> r.risk, tracker |-> tr, traded |-> FALSE]
       ELSE IF ~dry
       THEN [risk |-> r.risk, tracker |-> opened, traded |-> TRUE]
       ELSE [risk |-> IF closed.record # None
                      THEN record_trade_completed(r.risk, win, t) ELSE r.risk,
             tracker |-> closed.tracker, traded |-> TRUE]

\* the loop of scan_and_execute without its test of open_count
RECURSIVE directional_markets_uncapped(_, _, _, _, _, _, _, _)
directional_markets_uncapped(rk, tr, dry, markets, i, open_count, win, t) ==
    IF i > Len(markets)
    THEN [risk |-> rk, tracker |-> tr]
    ELSE LET e == directional_evaluate(rk, tr, dry, i, markets[i], win, t)
         IN directional_markets_uncapped(e.risk, e.tracker, dry, markets, i + 1,
                                IF e.traded THEN open_count + 1 ELSE open_count,
                                win, t)

\* the loop of scan_and_execute over the BTC markets, from the i-th on
RECURSIVE directional_markets(_, _, _, _, _, _, _, _)
directional_markets(rk, tr, dry, markets, i, open_count, win, t) ==
    IF i > Len(markets) \/ open_count >= MAX_CONCURRENT_DIRECTIONAL
    THEN [risk |-> rk, tracker |-> tr]
    ELSE LET e == directional_evaluate(rk, tr, dry, i, markets[i], win, t)
         IN directional_markets(e.risk, e.tracker, dry, markets, i + 1,
                                IF e.traded THEN open_count + 1 ELSE open_count,
                                win, t)

\* scan_and_execute over the markets: the instance, the risk manager and the
\* tracker after it
directional_scan_markets(d, rk, tr, dry, markets, win, t) ==
    IF d.disabled
    THEN [directional |-> d, risk |-> rk, tracker |-> tr]
    ELSE
      LET d1 == [d EXCEPT !.disabled = check_auto_disable(tr, @)]
          open_count == strategy_position_count(tr, STRATEGY_NAME)
          s == directional_markets(rk, tr, dry, markets, 1, open_count, win, t)
      IN IF open_count >= MAX_CONCURRENT_DIRECTIONAL
         THEN [directional |-> d1, risk |-> rk, tracker |-> tr]
         ELSE [directional |-> d1, risk |-> s.risk, tracker |-> s.tracker]

InitDirCap ==
    /\ now = 0
    /\ ticks = 0
    /\ ret = NoRet
    /\ recovery_wins = 0
    /\ DRY_RUN \in BOOLEAN
    /\ om = NewOrderManager
    /\ venue = NewVenue
    /\ arb = IdleArb
    /\ res = IdleRes
    /\ tracker = NewTracker
    /\ risk = set_day_start_balance(NewRisk(0), DirBalance, 0)
    /\ main = NewMain(3) @@ [directional |-> NewDirectional(0)]

\* one iteration of main_loop: the phase is chosen, a new phase rebuilds the
\* strategies, and in phase 3 the engine scans the markets
DirCapCycle ==
    /\ main.cycle < MaxCapCycles
    /\ \E new_phase \in {2, 3}, markets \in MarketLists(MaxMarkets),
          win \in BOOLEAN :
         LET d == IF new_phase # main.phase
                  THEN NewDirectional(main.directional.gen + 1)
                  ELSE main.directional
             s == directional_scan_markets(d, risk, tracker, DRY_RUN, markets,
                                           win, now)
         IN IF new_phase = 3
            THEN /\ main' = [main EXCEPT !.cycle = @ + 1, !.phase = new_phase,
                                         !.directional = s.directional]
                 /\ risk' = s.risk
                 /\ tracker' = s.tracker
            ELSE /\ main' = [main EXCEPT !.cycle = @ + 1, !.phase = new_phase,
                                         !.directional = d]
                 /\ UNCHANGED <<risk, tracker>>
    /\ UNCHANGED <<now, ticks, ret, recovery_wins, DRY_RUN, om, venue, arb, res>>

NextDirCap == DirCapCycle

SpecDirCap == InitDirCap /\ [][NextDirCap]_vars

\* C33: in every reachable state the number of open ledger positions owned by
\* the directional strategy is at most MAX_CONCURRENT_DIRECTIONAL, across any
\* number of cycles, in dry-run and live mode, and across phase-change
\* rebuilds of the strategy set.
C33_ConcurrentCap ==
    strategy_position_count(tracker, STRATEGY_NAME) <= MAX_CONCURRENT_DIRECTIONAL

\* live mode: the cap is reached, by an instance built after a phase change,
\* and a further cycle has run
C33_Witness ==
    /\ ~DRY_RUN
    /\ strategy_position_count(tracker, STRATEGY_NAME) = MAX_CONCURRENT_DIRECTIONAL
    /\ main.directional.gen >= 2
    /\ main.phase = 3
    /\ main.cycle = MaxCapCycles

(***************************************************************************)
(* SpecSizing: SumToOneArb._evaluate_market sizing its pair and asking the *)
(* risk manager, between ticks of the clock and the results of earlier     *)
(* trades.  The balance read is the day's start or 5% under it, so that a  *)
(* scan can trip the cooldown.  ret keeps, for the last call, the          *)
(* multiplier it read, the states of the risk manager before and after it, *)
(* and the shares of the pair.                                             *)
(***************************************************************************)
SizingBooks == {bk \in ArbBooks : bk.yes # <<>>}

InitSizing ==
    /\ now = 0
    /\ ticks = 0
    /\ tracker = NewTracker
    /\ risk = set_day_start_balance(NewRisk(0), 20000, 0)
    /\ ret = NoRet
    /\ recovery_wins = 0
    /\ DRY_RUN = FALSE
    /\ om = NewOrderManager
    /\ venue = NewVenue
    /\ main = NewMain(1)
    /\ arb = IdleArb
    /\ res = IdleRes

\* _evaluate_market from the return of get_balance to the return of
\* check_trade: no suspension lies between the read of the multiplier and
\* the call
SizedEvaluate ==
    /\ is_trading_allowed(risk, now)
    /\ \E books \in SizingBooks, b \in Balances :
         LET e == sum_to_one_evaluate(risk, tracker, books.yes, books.no, b, now)
         IN /\ risk' = e.risk
            /\ ret' = [op |-> "evaluate_market", approved |-> e.go, reason |-> "",
                       multiplier |-> get_position_multiplier(risk),
                       state_before |-> risk.state,
                       state_after |-> e.risk.state,
                       balance |-> b,
                       shares |-> e.shares]
            /\ recovery_wins' = IF e.checked
                                THEN wins_after_check(risk, now, recovery_wins)
                                ELSE recovery_wins
    /\ UNCHANGED <<now, ticks, tracker, sysvars>>

NextSizing ==
    \/ Tick
    \/ SizedEvaluate
    \/ CallRecordTradeCompleted

SpecSizing == InitSizing /\ [][NextSizing]_vars

\* C34: every trade that check_trade approves while leaving the state
\* RECOVERY was sized with get_position_multiplier() =
\* RECOVERY_POSITION_MULTIPLIER, the first trade after a cooldown expires
\* included: the multiplier is never read for a trade that is approved while
\* the state is still COOLDOWN.
C34_RecoverySizing ==
    (/\ ret.op = "evaluate_market"
     /\ ret.approved
     /\ ret.state_after = "RECOVERY")
      => /\ ret.multiplier = RECOVERY_POSITION_MULTIPLIER
         /\ ret.state_before # "COOLDOWN"

\* what the code does: the reduced multiplier is read exactly when the state
\* was RECOVERY before the call, and the first trade after a cooldown is
\* sized at the full multiplier
C34_SizedByStateBefore ==
    ret.op = "evaluate_market"
      => /\ ret.multiplier = (IF ret.state_before = "RECOVERY"
                              THEN RECOVERY_POSITION_MULTIPLIER
                              ELSE FULL_MULTIPLIER)
         /\ (ret.approved /\ ret.state_before = "COOLDOWN")
              => /\ ret.state_after = "RECOVERY"
                 /\ ret.multiplier = FULL_MULTIPLIER

(***************************************************************************)
(* SpecRace: the engine of Spec in live mode, the strategies reading a     *)
(* balance at the day's start or 5% under it, so that the check_trade of   *)
(* one strategy can trip the cooldown while the other is between its own   *)
(* approved check_trade and the return of its orders.                      *)
(***************************************************************************)
RaceBalances == {19000, 20000}

InitRace ==
    /\ now \in StartTimes
    /\ ticks = 0
    /\ DRY_RUN = FALSE
    /\ tracker = NewTracker
    /\ risk = set_day_start_balance(NewRisk(now), 20000, now)
    /\ main = NewMain(determine_phase(20000))
    /\ om = NewOrderManager
    /\ venue = NewVenue
    /\ arb = IdleArb
    /\ res = IdleRes
    /\ ret = NoRet
    /\ recovery_wins = 0

RaceArbScan == ArbScanOn(RaceBalances)

RaceResEvaluate == ResEvaluateOn(RaceBalances)

NextRace ==
    \/ MainCycle
    \/ MainJoin
    \/ MainWake
    \/ RaceArbScan
    \/ ArbLeg
    \/ ArbGathered
    \/ ArbPoll
    \/ ArbSellRetry
    \/ ArbSellChecked
    \/ ResScan
    \/ RaceResEvaluate
    \/ ResRetry
    \/ VenueFill

SpecRace == InitRace /\ [][NextRace]_vars

\* a BUY order reaches the venue: the YES leg, the NO leg or the resolution
\* order
BuySubmitted ==
    \E slot \in {"yes", "no", "res"} :
        venue.orders[slot] = "none" /\ venue'.orders[slot] = "open"

\* the cooldown is on when the step ends
CoolingAfter == risk'.state = "COOLDOWN" /\ now' < risk'.cooldown_until

\* C35: no BUY order is submitted to the venue while the state is COOLDOWN
\* with the deadline not yet reached, under any interleaving of the
\* concurrently dispatched strategies: one strategy may trip the cooldown
\* between another strategy's approved check_trade and its order submission
\* or retry.
C35_NoBuyInCooldown ==
    [][BuySubmitted => ~CoolingAfter]_vars

\* what the code does keep: the step in which a strategy's check_trade
\* approves, and every order it submits in that step, ends outside the
\* cooldown
C35_ApprovedOutsideCooldown ==
    [][(risk' # risk /\ BuySubmitted) => ~CoolingAfter]_vars

(***************************************************************************)
(* SpecPair: one scan of SumToOneArb against a CLOB that may fail every    *)
(* submission, every open-orders query and every cancel, and that fills an *)
(* order or never does. SpecPairFair adds that every sleep of the call     *)
(* returns and every runnable coroutine is run: the clock advances.        *)
(***************************************************************************)
InitPair ==
    /\ now \in StartTimes
    /\ ticks = 0
    /\ DRY_RUN \in BOOLEAN
    /\ tracker = NewTracker
    /\ \E b \in ChainBalances :
         /\ risk = set_day_start_balance(NewRisk(now), b, now)
         /\ main = NewMain(determine_phase(b))
    /\ om = NewOrderManager
    /\ venue = NewVenue
    /\ arb = [IdleArb EXCEPT !.pc = "fetch"]
    /\ res = IdleRes
    /\ ret = NoRet
    /\ recovery_wins = 0

PairLeg == ArbLegOn(TRUE)

PairPoll == ArbPollOn(TRUE)

PairSellRetry == ArbSellRetryOn(TRUE)

NextPair ==
    \/ ArbScan
    \/ PairLeg
    \/ ArbGathered
    \/ PairPoll
    \/ PairSellRetry
    \/ ArbSellChecked
    \/ VenueFill

SpecPair == InitPair /\ [][NextPair]_vars

SpecPairFair ==
    /\ SpecPair
    /\ WF_vars(PairLeg)
    /\ WF_vars(ArbGathered)
    /\ WF_vars(PairPoll)
    /\ WF_vars(PairSellRetry)
    /\ WF_vars(ArbSellChecked)

\* place_arb_pair has been called and has not returned
PairInFlight == arb.pc \in {"gather", "poll", "sell_backoff", "sell_wait"}

\* C40: every place_arb_pair call eventually returns, whatever the venue does
\* (submissions that fail, open-orders queries that fail or keep listing the
\* orders, cancels that fail, a recovery SELL that never fills), given that
\* the clock advances: retries are bounded by MAX_RETRIES, monitoring by
\* ORDER_TIMEOUT_SECONDS and the recovery wait by one more
\* ORDER_TIMEOUT_SECONDS.
C40_PairReturns == PairInFlight ~> arb.pc = "done"

\* no place_limit call is ever rejected more than MAX_RETRIES times, and the
\* monitor never waits past ORDER_TIMEOUT_SECONDS
C40_Bounded ==
    /\ arb.yes.attempt <= MAX_RETRIES
    /\ arb.no.attempt <= MAX_RETRIES
    /\ arb.sell.attempt <= MAX_RETRIES
    /\ arb.waited <= ORDER_TIMEOUT_SECONDS

\* a pair has returned after the CLOB failed submissions of both legs and of
\* the recovery SELL, the monitor timed out with one leg filled, and the
\* recovery SELL was never found filled
C40_Witness ==
    /\ arb.pc = "done"
    /\ arb.monitor = "timeout"
    /\ arb.recovery = "unfilled"
    /\ venue.rejected > MAX_RETRIES
    /\ venue.orders["sell"] = "open"

\* a pair has returned after every submission of both legs was rejected
C40_BothFailed ==
    /\ arb.pc = "done"
    /\ om.tickets["yes"].status = "failed"
    /\ om.tickets["no"].status = "failed"
    /\ venue.rejected = 2 * MAX_RETRIES
====
